---- MODULE Spec2Model ----
\* Verification model of khoi/atop's hardware telemetry acquisition engine:
\*   - the IOReport samplers (IOReportPerf, IOReport) and their native handles,
\*   - the SMC client (Smc): connection, key-info cache, typed key reads,
\*     sensor aggregators.
EXTENDS Integers, Sequences, FiniteSets, TLC

\* ---------------------------------------------------------------------------
\* Bounds of the model
\* ---------------------------------------------------------------------------

\* Number of sample calls followed on one sampler instance.
MaxSamples == 2

\* Number of service entries the IOService iterator may hand out.
MaxServices == 2
\* of the 10 fans / 44 CPU rails / 10 GPU rails / 14 known sensors / 26 fallback
\* sensors the aggregators walk, the model walks the first ones
MaxFans == 1
MaxCpuRails == 1
MaxGpuRails == 1
MaxKnown == 2
MaxFallback == 2
\* largest key count the controller reports for "#KEY"
MaxKeys == 2
\* largest number of 8-byte records in a voltage-states blob
MaxRecords == 2
\* largest residency of a performance state, in ticks
MaxTicks == 3
\* largest number of channels in an energy sample
MaxChannels == 2
\* largest number of sampling cycles of a collector
MaxCycles == 2
\* largest number of channels in a performance sample
MaxPerfChannels == 2
\* largest number of updates followed on a dashboard
MaxUpdates == 2

\* ---------------------------------------------------------------------------
\* State
\* ---------------------------------------------------------------------------

VARIABLES
    component,  \* the object under construction/use: "perf", "power" or "smc"
    pc,         \* position of the (single) calling thread
    native,     \* the native layer: live handles, allocation/release counts
    calls,      \* number of invocations of each native primitive
    trace,      \* native events of the sample call in progress / last completed
    samples,    \* number of completed sample calls
    staleUse,   \* a snapshot was requested on a released subscription/channel set
    grp,        \* create_channels: number of per-group dictionaries copied so far
    services,   \* Smc::new: release count of every entry obtained from the iterator
    key_cache,  \* Smc.key_cache: key_32 -> SMCKeyInfoData
    infoOk,     \* key_32 -> number of read-key-info requests the controller answered
    wire,       \* the requests the last Smc operation sent to the controller
    last,       \* the last Smc operation and what it returned
    agg,        \* the aggregate call (get_*_metrics, get_*_temperature) in progress
    calc,       \* the last call of a computation (parser, calc_freq, ..): input, result
    loop,       \* a caller that collects metrics cycle after cycle, and its resources
    rec,        \* the call that builds a metrics record: sources read, fields so far
    dash        \* the state of the dashboard and the number of updates it has taken

lifeVars == <<component, pc, native, calls, trace, samples, staleUse, grp, services>>

smcVars == <<key_cache, infoOk, wire, last, agg>>

calcVars == <<calc, loop, rec, dash>>

vars == <<lifeVars, smcVars, calcVars>>

\* ---------------------------------------------------------------------------
\* The native layer (CoreFoundation / IOKit reference counting)
\* ---------------------------------------------------------------------------

Handles == {"group1", "group2", "chan", "subs", "sample1", "sample2", "delta",
            "iterator", "connection"}

Primitives == {"IOReportCopyChannelsInGroup", "CFDictionaryCreateMutableCopy",
               "IOReportCreateSubscription", "IOReportCreateSamples",
               "IOReportCreateSamplesDelta", "IOServiceOpen", "IOServiceClose"}

NativeInit == [live     |-> {},
               allocs   |-> [h \in Handles |-> 0],
               releases |-> [h \in Handles |-> 0],
               over     |-> {}]

\* A Create/Copy call returned a new object the caller owns.
Create(n, h) == [n EXCEPT !.live = @ \cup {h}, !.allocs[h] = @ + 1]

\* CFRelease / IOObjectRelease / IOServiceClose of handle h. Releasing a handle
\* that is not live (already released) is recorded in n.over.
CFRelease(n, h) ==
    IF h \in n.live
    THEN [n EXCEPT !.live = @ \ {h}, !.releases[h] = @ + 1]
    ELSE [n EXCEPT !.over = @ \cup {h}, !.releases[h] = @ + 1]

Called(c, p) == [c EXCEPT ![p] = @ + 1]

\* ---------------------------------------------------------------------------
\* IOReportPerf::new / IOReport::new
\* ---------------------------------------------------------------------------

IsSampler == component \in {"perf", "power"}

\* IOReportPerf requests two groups, the power variant one ("Energy Model").
NumGroups == IF component = "perf" THEN 2 ELSE 1

GroupHandle(i) == IF i = 1 THEN "group1" ELSE "group2"

\* for (group, subgroup) in items { ... IOReportCopyChannelsInGroup ... push }
create_channels_copy ==
    /\ IsSampler
    /\ pc = "start"
    /\ grp < NumGroups
    /\ grp' = grp + 1
    /\ native' = Create(native, GroupHandle(grp + 1))
    /\ calls' = Called(calls, "IOReportCopyChannelsInGroup")
    /\ UNCHANGED <<component, pc, trace, samples, staleUse, services, smcVars, calcVars>>

RECURSIVE ReleaseGroups(_, _)
ReleaseGroups(n, i) ==
    IF i = 0 THEN n ELSE ReleaseGroups(CFRelease(n, GroupHandle(i)), i - 1)

\* IOReportMergeChannels into the first dictionary, CFDictionaryCreateMutableCopy,
\* then CFRelease of every per-group dictionary.
create_channels_merge ==
    /\ IsSampler
    /\ pc = "start"
    /\ grp = NumGroups
    /\ native' = ReleaseGroups(Create(native, "chan"), grp)
    /\ calls' = Called(calls, "CFDictionaryCreateMutableCopy")
    /\ pc' = "verify"
    /\ UNCHANGED <<component, trace, samples, staleUse, grp, services, smcVars, calcVars>>

\* What the error return of create_channels / IOReport::new does to the native
\* objects allocated so far: nothing, the Err is returned directly.
FailedNew(n) == n

\* if cfdict_get_val(chan, "IOReportChannels").is_none() { return Err(..) }
create_channels_verify ==
    /\ IsSampler
    /\ pc = "verify"
    /\ \E hasChannels \in BOOLEAN :
          IF hasChannels
          THEN /\ pc' = "subscribe"
               /\ native' = native
          ELSE /\ pc' = "failed"
               /\ native' = FailedNew(native)
    /\ UNCHANGED <<component, calls, trace, samples, staleUse, grp, services, smcVars, calcVars>>

\* IOReportCreateSubscription(null, chan, &dict, 0, null); null => Err.
create_subscription ==
    /\ IsSampler
    /\ pc = "subscribe"
    /\ calls' = Called(calls, "IOReportCreateSubscription")
    /\ \E subs_is_null \in BOOLEAN :
          IF subs_is_null
          THEN /\ pc' = "failed"
               /\ native' = FailedNew(native)
          ELSE /\ pc' = "subscribed"
               /\ native' = Create(native, "subs")
    /\ UNCHANGED <<component, trace, samples, staleUse, grp, services, smcVars, calcVars>>

\* ---------------------------------------------------------------------------
\* IOReportPerf::get_sample / IOReport::sample_power
\* ---------------------------------------------------------------------------

\* Variant: a sample call that opens a subscription of its own for each snapshot.
SnapshotCallsResubscribing(c) ==
    Called(Called(c, "IOReportCreateSubscription"), "IOReportCreateSamples")

\* The native calls one IOReportCreateSamples(self.subs, self.chan, null()) makes.
SnapshotCalls(c) == Called(c, "IOReportCreateSamples")

\* A snapshot is requested on the instance's subscription and channel set.
Stale(n) == "subs" \notin n.live \/ "chan" \notin n.live

\* let sample1 = IOReportCreateSamples(self.subs, self.chan, null());
\* (the service may hand back a null snapshot)
get_sample_first ==
    /\ IsSampler
    /\ pc = "subscribed"
    /\ samples < MaxSamples
    /\ calls' = SnapshotCalls(calls)
    /\ staleUse' = (staleUse \/ Stale(native))
    /\ trace' = <<"sample1">>
    /\ \E is_null \in BOOLEAN :
          native' = IF is_null THEN native ELSE Create(native, "sample1")
    /\ pc' = "sleep"
    /\ UNCHANGED <<component, samples, grp, services, smcVars, calcVars>>

\* std::thread::sleep(Duration::from_millis(duration_ms));
get_sample_sleep ==
    /\ IsSampler
    /\ pc = "sleep"
    /\ trace' = Append(trace, "sleep")
    /\ pc' = "second"
    /\ UNCHANGED <<component, native, calls, samples, staleUse, grp, services, smcVars, calcVars>>

\* let sample2 = IOReportCreateSamples(self.subs, self.chan, null());
get_sample_second ==
    /\ IsSampler
    /\ pc = "second"
    /\ calls' = SnapshotCalls(calls)
    /\ staleUse' = (staleUse \/ Stale(native))
    /\ trace' = Append(trace, "sample2")
    /\ \E is_null \in BOOLEAN :
          native' = IF is_null THEN native ELSE Create(native, "sample2")
    /\ pc' = "delta"
    /\ UNCHANGED <<component, samples, grp, services, smcVars, calcVars>>

\* let delta = IOReportCreateSamplesDelta(sample1, sample2, null());
\* With a null argument the private call either traps or hands back null.
get_sample_delta ==
    /\ IsSampler
    /\ pc = "delta"
    /\ calls' = Called(calls, "IOReportCreateSamplesDelta")
    /\ trace' = Append(trace, "delta")
    /\ IF {"sample1", "sample2"} \subseteq native.live
       THEN \E is_null \in BOOLEAN :
               /\ native' = IF is_null THEN native ELSE Create(native, "delta")
               /\ pc' = "release"
       ELSE \E traps \in BOOLEAN :
               /\ native' = native
               /\ pc' = IF traps THEN "crashed" ELSE "release"
    /\ UNCHANGED <<component, samples, staleUse, grp, services, smcVars, calcVars>>

\* Variant: only the first snapshot is released.
ReleaseSnapshotsFirstOnly(n) == CFRelease(n, "sample1")

\* CFRelease(sample1); CFRelease(sample2);  -- what a completed pair of releases
\* does to the native layer.
ReleaseSnapshots(n) == CFRelease(CFRelease(n, "sample1"), "sample2")

\* CFRelease(NULL) traps: the process dies at the first null snapshot.
get_sample_release ==
    /\ IsSampler
    /\ pc = "release"
    /\ IF "sample1" \notin native.live
       THEN /\ native' = native
            /\ trace' = trace
            /\ pc' = "crashed"
       ELSE IF "sample2" \notin native.live
       THEN /\ native' = CFRelease(native, "sample1")
            /\ trace' = Append(trace, "release1")
            /\ pc' = "crashed"
       ELSE /\ native' = ReleaseSnapshots(native)
            /\ trace' = trace \o <<"release1", "release2">>
            /\ pc' = "parse"
    /\ UNCHANGED <<component, calls, samples, staleUse, grp, services, smcVars, calcVars>>

\* Variant: the sample call also releases the channel set it borrowed.
ReleaseDeltaAndChan(n) == CFRelease(CFRelease(n, "delta"), "chan")

\* CFRelease(delta as _) at the end of get_sample.
ReleaseDelta(n) == CFRelease(n, "delta")

\* IOReportPerf: let sample = parse_sample(delta); CFRelease(delta); sample
\* parse_sample reads the dictionary (CFDictionaryGetValue), which traps on null.
get_sample_parse ==
    /\ component = "perf"
    /\ pc = "parse"
    /\ IF "delta" \in native.live
       THEN /\ native' = ReleaseDelta(native)
            /\ trace' = Append(trace, "release_delta")
            /\ samples' = samples + 1
            /\ pc' = "subscribed"
       ELSE /\ native' = native
            /\ trace' = trace
            /\ samples' = samples
            /\ pc' = "crashed"
    /\ UNCHANGED <<component, calls, staleUse, grp, services, smcVars, calcVars>>

\* IOReport: Ok(IOReportIterator::new(delta, elapsed_ms)); new() unwraps the
\* "IOReportChannels" lookup, so a delta without it panics before the iterator
\* (the owner of delta) exists.
sample_power_iterator ==
    /\ component = "power"
    /\ pc = "parse"
    /\ IF "delta" \in native.live
       THEN \E hasChannels \in BOOLEAN :
               pc' = IF hasChannels THEN "iterating" ELSE "panicked"
       ELSE pc' = "crashed"
    /\ UNCHANGED <<component, native, calls, trace, samples, staleUse, grp, services, smcVars, calcVars>>

\* Drop for IOReportIterator, at the end of the caller's `for channel in sample`.
IOReportIterator_drop ==
    /\ component = "power"
    /\ pc = "iterating"
    /\ native' = CFRelease(native, "delta")
    /\ trace' = Append(trace, "release_delta")
    /\ samples' = samples + 1
    /\ pc' = "subscribed"
    /\ UNCHANGED <<component, calls, staleUse, grp, services, smcVars, calcVars>>

\* Variant: the channel set is released twice and the subscription never.
DropSamplerChanTwice(n) == CFRelease(CFRelease(n, "chan"), "chan")

\* Drop for IOReportPerf / IOReport: CFRelease(chan); CFRelease(subs).
DropSampler(n) == CFRelease(CFRelease(n, "chan"), "subs")

IOReport_drop ==
    /\ IsSampler
    /\ pc = "subscribed"
    /\ native' = DropSampler(native)
    /\ pc' = "closed"
    /\ UNCHANGED <<component, calls, trace, samples, staleUse, grp, services, smcVars, calcVars>>

\* ---------------------------------------------------------------------------
\* Smc::new / Drop for Smc (connection lifecycle)
\* ---------------------------------------------------------------------------

\* Drop for IOServiceIterator: if self.iterator != 0 { IOObjectRelease(..) }
IOServiceIterator_drop(n) ==
    IF "iterator" \in n.live THEN CFRelease(n, "iterator") ELSE n

\* IOServiceIterator::new("AppleSMC")?
IOServiceIterator_new ==
    /\ component = "smc"
    /\ pc = "start"
    /\ \E outcome \in {"no_matching", "not_found", "ok"} :
          IF outcome = "ok"
          THEN /\ native' = Create(native, "iterator")
               /\ pc' = "iterate"
          ELSE /\ native' = native
               /\ pc' = "failed"
    /\ UNCHANGED <<component, calls, trace, samples, staleUse, grp, services, smcVars, calcVars>>

\* One turn of `for (device, name) in iterator { ... }` in Smc::new, up to and
\* including the return it may take.
Smc_new_next ==
    /\ component = "smc"
    /\ pc = "iterate"
    /\ \/ \* IOIteratorNext returned 0: loop ends, Err("Failed to find ...")
          /\ native' = IOServiceIterator_drop(native)
          /\ pc' = "failed"
          /\ UNCHANGED <<calls, services>>
       \/ \* IORegistryEntryGetName failed: next() returns None with the entry held
          /\ Len(services) < MaxServices
          /\ services' = Append(services, 0)
          /\ native' = IOServiceIterator_drop(native)
          /\ pc' = "failed"
          /\ UNCHANGED calls
       \/ \* another service name: IOObjectRelease(device), next turn
          /\ Len(services) < MaxServices
          /\ services' = Append(services, 1)
          /\ UNCHANGED <<native, pc, calls>>
       \/ \* "AppleSMCKeysEndpoint": IOServiceOpen, IOObjectRelease(device)
          /\ Len(services) < MaxServices
          /\ services' = Append(services, 1)
          /\ calls' = Called(calls, "IOServiceOpen")
          /\ \E result \in {"ok", "ok_zero_connection", "not_privileged", "error"} :
                CASE result = "ok" ->
                        /\ native' = IOServiceIterator_drop(Create(native, "connection"))
                        /\ pc' = "open"
                  [] result = "ok_zero_connection" ->
                        /\ native' = native
                        /\ pc' = pc
                  [] OTHER ->
                        /\ native' = IOServiceIterator_drop(native)
                        /\ pc' = "failed"
    /\ UNCHANGED <<component, trace, samples, staleUse, grp, smcVars, calcVars>>

\* Drop for Smc: if self.connection != 0 { IOServiceClose(self.connection) }
SmcDrop(n) == IF "connection" \in n.live THEN CFRelease(n, "connection") ELSE n

Smc_drop ==
    /\ component = "smc"
    /\ pc = "open"
    /\ native' = SmcDrop(native)
    /\ calls' = Called(calls, "IOServiceClose")
    /\ pc' = "closed"
    /\ UNCHANGED <<component, trace, samples, staleUse, grp, services, smcVars, calcVars>>

\* ---------------------------------------------------------------------------
\* SMC client: keys, requests and replies
\* ---------------------------------------------------------------------------

SMC_CMD_READ_KEYINFO == 9
SMC_CMD_READ_BYTES == 5
SMC_CMD_READ_INDEX == 8

\* SMCKeyData.bytes: [u8; 32]
SMC_BYTES_LEN == 32

\* HashMap::new()
NoCache == [k \in {} |-> 0]

NoOp == [op |-> "none"]

\* No computation has been called.
NoCalc == [op |-> "none"]

NoLoop == [caller |-> "none"]

NoRec == [fn |-> "none"]

\* No dashboard has been made.
NoDash == [updates |-> 0]

\* No aggregate call has been made.
NoAgg ==
    [fn |-> "none", phase |-> "idle", stage |-> "fields", todo |-> <<>>, log |-> <<>>,
     fields |-> <<>>, all_keys |-> <<>>, cpu_sensors |-> <<>>, gpu_sensors |-> <<>>,
     ret |-> NoOp]

\* Result<T, Box<dyn Error>>, and a panic of the calling thread.
Ok(v) == [kind |-> "Ok", val |-> v]
Err(why) == [kind |-> "Err", val |-> why]
Panic == [kind |-> "Panic", val |-> "range end index out of range for slice"]

\* Variant: the key characters taken least-significant first.
Key32LittleEndian(key) ==
    key[4] * 16777216 + key[3] * 65536 + key[2] * 256 + key[1]

\* u32::from_be_bytes([key_bytes[0], key_bytes[1], key_bytes[2], key_bytes[3]])
\* A key is the sequence of its bytes (ASCII codes).
Key32(key) ==
    key[1] * 16777216 + key[2] * 65536 + key[3] * 256 + key[4]

\* The connection state an Smc method works on: the cache, the count of answered
\* read-key-info requests (per key_32), and the requests sent so far.
SmcState == [cache |-> key_cache, infoOk |-> infoOk, wire |-> <<>>]

\* IOConnectCallStructMethod(self.connection, 2, &input, .., &mut output, ..)
Sent(st, cmd, key_32) ==
    [st EXCEPT !.wire = Append(@, [cmd |-> cmd, key |-> key_32])]

\* The controller answered a read-key-info request (result 0, output.result 0).
Answered(st, key_32) ==
    [st EXCEPT !.infoOk = (key_32 :> (IF key_32 \in DOMAIN @ THEN @[key_32] + 1 ELSE 1)) @@ @]

\* Variant: the answer is returned but never stored.
CacheInsertNothing(st, key_32, info) == st

\* Variant: the cache holds one entry, a new one evicts the old one.
CacheInsertEvicting(st, key_32, info) ==
    [st EXCEPT !.cache = (key_32 :> info)]

\* self.key_cache.insert(key_32, output.key_info)
CacheInsert(st, key_32, info) ==
    [st EXCEPT !.cache = (key_32 :> info) @@ @]

\* fn read_key_info(&mut self, key: &str) -> Result<SMCKeyInfoData, ..>
\* reply: what the controller returns if a request is sent.
read_key_info(st, key, reply) ==
    IF Len(key) # 4
    THEN [st |-> st, res |-> Err("SMC key must be exactly 4 characters")]
    ELSE LET key_32 == Key32(key) IN
         IF key_32 \in DOMAIN st.cache
         THEN [st |-> st, res |-> Ok(st.cache[key_32])]
         ELSE LET sent == Sent(st, SMC_CMD_READ_KEYINFO, key_32) IN
              IF reply.io # 0
              THEN [st |-> sent, res |-> Err("Failed to read key info (IOConnect)")]
              ELSE IF reply.result # 0
              THEN [st |-> sent, res |-> Err("SMC error for key")]
              ELSE [st  |-> CacheInsert(Answered(sent, key_32), key_32, reply.key_info),
                    res |-> Ok(reply.key_info)]

\* output.bytes[0..info.data_size as usize].to_vec(): a range past the array
\* panics.
Slice(bytes, size) ==
    IF size > SMC_BYTES_LEN THEN Panic ELSE Ok(SubSeq(bytes, 1, size))

\* fn read_key_data(&self, key: &str, info: &SMCKeyInfoData) -> Result<Vec<u8>, ..>
read_key_data(st, key, info, reply) ==
    IF Len(key) # 4
    THEN [st |-> st, res |-> Err("SMC key must be exactly 4 characters")]
    ELSE LET sent == Sent(st, SMC_CMD_READ_BYTES, Key32(key)) IN
         IF reply.io # 0
         THEN [st |-> sent, res |-> Err("Failed to read key data (IOKit error)")]
         ELSE IF reply.result # 0
         THEN [st |-> sent, res |-> Err("Failed to read key data (SMC error)")]
         ELSE [st |-> sent, res |-> Slice(reply.bytes, info.data_size)]

\* ---------------------------------------------------------------------------
\* Smc::read_value: dynamic decode by type tag
\* ---------------------------------------------------------------------------

\* A data_type whose four bytes are not UTF-8.
NonUtf8Type == "<ff fe fd fc>"

\* std::str::from_utf8(&info.data_type.to_be_bytes()).unwrap_or("????")
TypeStr(data_type) == IF data_type = NonUtf8Type THEN "????" ELSE data_type

FpTypes == {"fp1f", "fp2e", "fp3d", "fp4c", "fp5b", "fp6a", "fp79", "fp88",
            "fpa6", "fpc4", "fpe2"}

SpTypes == {"sp1e", "sp2d", "sp3c", "sp4b", "sp5a", "sp69", "sp78", "sp87",
            "sp96", "spb4", "spf0"}

FpScale(type_str) ==
    CASE type_str = "fp1f" -> 32768
      [] type_str = "fp2e" -> 16384
      [] type_str = "fp3d" -> 8192
      [] type_str = "fp4c" -> 4096
      [] type_str = "fp5b" -> 2048
      [] type_str = "fp6a" -> 1024
      [] type_str = "fp79" -> 512
      [] type_str = "fp88" -> 256
      [] type_str = "fpa6" -> 64
      [] type_str = "fpc4" -> 16
      [] type_str = "fpe2" -> 4
      [] OTHER -> 256

SpScale(type_str) ==
    CASE type_str = "sp1e" -> 16384
      [] type_str = "sp2d" -> 8192
      [] type_str = "sp3c" -> 4096
      [] type_str = "sp4b" -> 2048
      [] type_str = "sp5a" -> 1024
      [] type_str = "sp69" -> 512
      [] type_str = "sp78" -> 256
      [] type_str = "sp87" -> 128
      [] type_str = "sp96" -> 64
      [] type_str = "spb4" -> 16
      [] type_str = "spf0" -> 1
      [] OTHER -> 256

\* Variant: the two bytes taken least-significant first.
U16LittleEndian(b0, b1) == b1 * 256 + b0

\* u16::from_be_bytes([b0, b1])
U16FromBe(b0, b1) == b0 * 256 + b1

\* u16::from_le_bytes([b0, b1])
U16FromLe(b0, b1) == b0 + 256 * b1

\* reinterpretation of a 16-bit / 8-bit pattern as two's complement (as i16, as i8)
AsI16(raw) == IF raw >= 32768 THEN raw - 65536 ELSE raw
AsI8(raw) == IF raw >= 128 THEN raw - 256 ELSE raw

\* SMCValue. 32-bit patterns are kept as two 16-bit halves <<high, low>>:
\*   Float "ieee": the f32 with bit pattern high * 2^16 + low
\*   Float "ratio": the f32 numerator / denominator (exact: 16-bit numerator,
\*   power-of-two denominator)
\*   U32: high * 2^16 + low
SMCFloatBits(high, low) == [t |-> "Float", v |-> <<"ieee", high, low>>]
SMCFloatRatio(num, den) == [t |-> "Float", v |-> <<"ratio", num, den>>]
SMCU8(x) == [t |-> "U8", v |-> x]
SMCU16(x) == [t |-> "U16", v |-> x]
SMCU32(high, low) == [t |-> "U32", v |-> <<high, low>>]
SMCI8(x) == [t |-> "I8", v |-> x]
SMCI16(x) == [t |-> "I16", v |-> x]
SMCFlag(b) == [t |-> "Flag", v |-> b]
SMCString(chars) == [t |-> "String", v |-> chars]
SMCBytes(data) == [t |-> "Bytes", v |-> data]

\* data.iter().position(|&b| b == 0).unwrap_or(8.min(data.len()))
StringEnd(data) ==
    IF \E i \in 1..Len(data) : data[i] = 0
    THEN (CHOOSE i \in 1..Len(data) :
             data[i] = 0 /\ \A j \in 1..(i - 1) : data[j] # 0) - 1
    ELSE IF Len(data) < 8 THEN Len(data) ELSE 8

\* String::from_utf8_lossy on bytes that are ASCII or stray non-UTF-8 bytes:
\* each byte >= 0x80 becomes U+FFFD (65533).
Utf8Lossy(data) == [i \in 1..Len(data) |-> IF data[i] >= 128 THEN 65533 ELSE data[i]]

\* Variant: an unknown tag is rejected.
DecodeUnknownRejected(data) == Err("Unknown SMC type")

\* _ => SMCValue::Bytes(data.clone())
DecodeUnknown(data) == Ok(SMCBytes(data))

\* match type_str { ... } in read_value
Decode(type_str, data) ==
    CASE type_str = "flt " ->
            IF Len(data) >= 4
            THEN Ok(SMCFloatBits(data[4] * 256 + data[3], data[2] * 256 + data[1]))
            ELSE Err("Invalid float data")
      [] type_str \in FpTypes ->
            IF Len(data) >= 2
            THEN Ok(SMCFloatRatio(U16FromBe(data[1], data[2]), FpScale(type_str)))
            ELSE Err("Invalid fixed point data")
      [] type_str \in SpTypes ->
            IF Len(data) >= 2
            THEN Ok(SMCFloatRatio(AsI16(U16FromBe(data[1], data[2])), SpScale(type_str)))
            ELSE Err("Invalid signed fixed point data")
      [] type_str = "ui8 " ->
            IF Len(data) # 0 THEN Ok(SMCU8(data[1])) ELSE Err("Invalid ui8 data")
      [] type_str = "ui16" ->
            IF Len(data) >= 2
            THEN Ok(SMCU16(U16FromBe(data[1], data[2])))
            ELSE Err("Invalid ui16 data")
      [] type_str = "ui32" ->
            IF Len(data) >= 4
            THEN Ok(SMCU32(U16FromBe(data[1], data[2]), U16FromBe(data[3], data[4])))
            ELSE Err("Invalid ui32 data")
      [] type_str = "si8 " ->
            IF Len(data) # 0 THEN Ok(SMCI8(AsI8(data[1]))) ELSE Err("Invalid si8 data")
      [] type_str = "si16" ->
            IF Len(data) >= 2
            THEN Ok(SMCI16(AsI16(U16FromBe(data[1], data[2]))))
            ELSE Err("Invalid si16 data")
      [] type_str = "flag" ->
            IF Len(data) # 0 THEN Ok(SMCFlag(data[1] # 0)) ELSE Err("Invalid flag data")
      [] type_str = "ch8*" ->
            Ok(SMCString(Utf8Lossy(SubSeq(data, 1, StringEnd(data)))))
      [] type_str = "{fds" ->
            IF Len(data) >= 16 THEN Ok(SMCBytes(data)) ELSE Err("Invalid fan descriptor")
      [] OTHER -> DecodeUnknown(data)

\* pub fn read_value(&mut self, key: &str) -> Result<SMCValue, ..>
\* ir / dr: the controller's replies to the key-info and the read-bytes request.
\* info / data: what read_key_info and read_key_data returned to read_value.
read_value(st, key, ir, dr) ==
    LET i == read_key_info(st, key, ir) IN
    IF i.res.kind # "Ok"
    THEN [st |-> i.st, res |-> i.res, info |-> i.res, data |-> NoOp]
    ELSE LET d == read_key_data(i.st, key, i.res.val, dr) IN
         IF d.res.kind # "Ok"
         THEN [st |-> d.st, res |-> d.res, info |-> i.res, data |-> d.res]
         ELSE [st   |-> d.st,
               res  |-> Decode(TypeStr(i.res.val.data_type), d.res.val),
               info |-> i.res,
               data |-> d.res]

\* Variant: the generic big-endian reading is used.
U16Le_BigEndian(data) == U16FromBe(data[1], data[2])

\* u16::from_le_bytes([data[0], data[1]])
U16Le(data) == U16FromLe(data[1], data[2])

\* impl FromLeBytes for u16 / i16 / u32 / i32
FromLeBytes(T, data) ==
    CASE T = "u16" ->
            IF Len(data) >= 2 THEN Ok(U16Le(data))
            ELSE Err("Insufficient data for u16 key")
      [] T = "i16" ->
            IF Len(data) >= 2 THEN Ok(AsI16(U16Le(data)))
            ELSE Err("Insufficient data for i16 key")
      [] T = "u32" ->
            IF Len(data) >= 4
            THEN Ok(<<U16FromLe(data[3], data[4]), U16FromLe(data[1], data[2])>>)
            ELSE Err("Insufficient data for u32 key")
      [] OTHER ->
            IF Len(data) >= 4
            THEN Ok(<<AsI16(U16FromLe(data[3], data[4])), U16FromLe(data[1], data[2])>>)
            ELSE Err("Insufficient data for i32 key")

\* pub fn read_le<T: FromLeBytes>(&mut self, key: &str) -> Result<T, ..>
read_le(st, key, T, ir, dr) ==
    LET i == read_key_info(st, key, ir) IN
    IF i.res.kind # "Ok"
    THEN [st |-> i.st, res |-> i.res, info |-> i.res, data |-> NoOp]
    ELSE LET d == read_key_data(i.st, key, i.res.val, dr) IN
         IF d.res.kind # "Ok"
         THEN [st |-> d.st, res |-> d.res, info |-> i.res, data |-> d.res]
         ELSE [st   |-> d.st,
               res  |-> FromLeBytes(T, d.res.val),
               info |-> i.res,
               data |-> d.res]

\* ---------------------------------------------------------------------------
\* Smc: numeric reads, key enumeration
\* ---------------------------------------------------------------------------

\* An f32 is kept exactly, in one of three forms:
\*   <<"ieee", high, low>>   the f32 with bit pattern high * 2^16 + low
\*   <<"ratio", num, den>>   num / den, den > 0
\*   <<"u32", high, low>>    (high * 2^16 + low) as f32
\* read_float: match self.read_value(key)? { Float(f) => f, U8(v) => v as f32, .. }
ToF32(v) ==
    CASE v.t = "Float" -> Ok(v.v)
      [] v.t \in {"U8", "U16", "I8", "I16"} -> Ok(<<"ratio", v.v, 1>>)
      [] v.t = "U32" -> Ok(<<"u32", v.v[1], v.v[2]>>)
      [] OTHER -> Err("Key cannot be converted to float")

\* pub fn read_float / read_temperature
read_float(st, key, ir, dr) ==
    LET r == read_value(st, key, ir, dr) IN
    IF r.res.kind # "Ok" THEN r ELSE [r EXCEPT !.res = ToF32(r.res.val)]

\* f32 comparisons against the literals of the sanity filters. For an "ieee"
\* value: sign bit, magnitude bits, NaN (never inside any interval).
IsNaN(f) == (f[2] % 32768) > 32640 \/ ((f[2] % 32768) = 32640 /\ f[3] > 0)

\* temp > 0.0
Gt0(f) ==
    CASE f[1] = "ratio" -> f[2] > 0
      [] f[1] = "u32" -> f[2] > 0 \/ f[3] > 0
      [] OTHER -> ~IsNaN(f) /\ f[2] < 32768 /\ ~(f[2] = 0 /\ f[3] = 0)

\* temp > -50.0   (-50.0f32 = 0xC2480000)
GtMinus50(f) ==
    CASE f[1] = "ratio" -> f[2] > (-50) * f[3]
      [] f[1] = "u32" -> TRUE
      [] OTHER -> ~IsNaN(f) /\ (f[2] < 32768 \/ (f[2] % 32768) < 16968)

\* temp < 150.0   (150.0f32 = 0x43160000)
Lt150(f) ==
    CASE f[1] = "ratio" -> f[2] < 150 * f[3]
      [] f[1] = "u32" -> f[2] = 0 /\ f[3] < 150
      [] OTHER -> ~IsNaN(f) /\ (f[2] >= 32768 \/ f[2] < 17174)

\* "#KEY"
KeyNumKeys == <<35, 75, 69, 89>>

\* fn read_num_keys(&mut self) -> Result<u32, ..>
read_num_keys(st, ir, dr) ==
    LET i == read_key_info(st, KeyNumKeys, ir) IN
    IF i.res.kind # "Ok"
    THEN [st |-> i.st, res |-> i.res, info |-> i.res, data |-> NoOp]
    ELSE LET d == read_key_data(i.st, KeyNumKeys, i.res.val, dr) IN
         IF d.res.kind # "Ok"
         THEN [st |-> d.st, res |-> d.res, info |-> i.res, data |-> d.res]
         ELSE [st   |-> d.st,
               res  |-> IF Len(d.res.val) >= 4
                        THEN Ok(<<U16FromBe(d.res.val[1], d.res.val[2]),
                                  U16FromBe(d.res.val[3], d.res.val[4])>>)
                        ELSE Err("Invalid #KEY data"),
               info |-> i.res,
               data |-> d.res]

\* std::str::from_utf8 on 4 bytes that are ASCII or 0xff (0xff never occurs in
\* UTF-8).
Utf8Valid(bytes) == \A i \in 1..Len(bytes) : bytes[i] < 128

\* fn read_key_by_index(&self, index: u32) -> Result<String, ..>
\* reply: [io, key] with key the 4 bytes of output.key, most significant first.
read_key_by_index(st, index, reply) ==
    LET sent == [st EXCEPT !.wire = Append(@, [cmd |-> SMC_CMD_READ_INDEX, key |-> 0,
                                               data32 |-> index])] IN
    IF reply.io # 0
    THEN [st |-> sent, res |-> Err("Failed to read key at index")]
    ELSE IF ~Utf8Valid(reply.key)
    THEN [st |-> sent, res |-> Err("invalid utf-8 sequence")]
    ELSE [st |-> sent, res |-> Ok(reply.key)]

\* Variant: every key that was read is kept.
AllAsciiUnfiltered(key) == TRUE

\* key.chars().all(|c| c.is_ascii_graphic())
AllAsciiGraphic(key) == \A i \in 1..Len(key) : key[i] >= 33 /\ key[i] <= 126

\* key.starts_with(prefix)
StartsWith(key, prefix) ==
    Len(key) >= Len(prefix) /\ SubSeq(key, 1, Len(prefix)) = prefix

\* ---------------------------------------------------------------------------
\* The controller: replies the model draws from
\* ---------------------------------------------------------------------------

\* A 32-byte reply buffer starting with `head`; the rest is non-zero filler.
Buffer(head) ==
    [i \in 1..SMC_BYTES_LEN |-> IF i <= Len(head) THEN head[i] ELSE 100 + i]

NoInfo == [data_size |-> 0, data_type |-> "    "]

\* The call itself failed (IOConnectCallStructMethod returned kIOReturnError).
ReplyTransportError ==
    [io |-> -536870212, result |-> 0, key_info |-> NoInfo, bytes |-> Buffer(<<>>)]

\* The controller refused the key (output.result = kSMCKeyNotFound).
ReplyStatusError ==
    [io |-> 0, result |-> 132, key_info |-> NoInfo, bytes |-> Buffer(<<>>)]

ReplyInfo(info) == [io |-> 0, result |-> 0, key_info |-> info, bytes |-> Buffer(<<>>)]

ReplyData(head) == [io |-> 0, result |-> 0, key_info |-> NoInfo, bytes |-> Buffer(head)]

InfoReplies(infos) ==
    {ReplyTransportError, ReplyStatusError} \cup {ReplyInfo(i) : i \in infos}

DataReplies(heads) ==
    {ReplyTransportError, ReplyStatusError} \cup {ReplyData(h) : h \in heads}

\* "TC0P", "F0Ac", and two strings that are no 4-character keys
KeyTC0P == <<84, 67, 48, 80>>
KeyF0Ac == <<70, 48, 65, 99>>
KeyShort == <<66, 48>>
KeyLong == <<84, 67, 48, 80, 49>>

\* ---------------------------------------------------------------------------
\* Smc operations as steps
\* ---------------------------------------------------------------------------

\* What a finished Smc method leaves behind: the cache and request log it
\* produced, and its result. A panic ends the calling thread.
Returned(op, key, r, dr) ==
    /\ key_cache' = r.st.cache
    /\ infoOk' = r.st.infoOk
    /\ wire' = r.st.wire
    /\ last' = [op     |-> op,
                key    |-> key,
                res    |-> r.res,
                info   |-> r.info,
                data   |-> r.data,
                bytes  |-> IF r.data = NoOp THEN <<>> ELSE dr.bytes,
                dr_ok  |-> r.data # NoOp /\ dr.io = 0 /\ dr.result = 0]
    /\ pc' = IF r.res.kind = "Panic" THEN "panicked" ELSE pc
    /\ UNCHANGED <<component, native, calls, trace, samples, staleUse, grp, services,
                   calcVars>>

IsCached(key) == Len(key) = 4 /\ Key32(key) \in DOMAIN key_cache

\* The controller answers only the requests that are sent: a metadata reply
\* is drawn only for a key that is not in the cache.
InfoRepliesFor(key, irs) == IF IsCached(key) THEN {ReplyTransportError} ELSE irs

\* smc.read_value(key) with key, and the controller's replies, from the given sets
Smc_read_value(keys, irs, drs) ==
    /\ component = "smc"
    /\ pc = "open"
    /\ \E key \in keys, dr \in drs : \E ir \in InfoRepliesFor(key, irs) :
          Returned("read_value", key, read_value(SmcState, key, ir, dr), dr)
    /\ UNCHANGED agg

\* smc.read_le::<T>(key)
Smc_read_le(keys, Ts, irs, drs) ==
    /\ component = "smc"
    /\ pc = "open"
    /\ \E key \in keys, T \in Ts, dr \in drs : \E ir \in InfoRepliesFor(key, irs) :
          Returned("read_le", key, read_le(SmcState, key, T, ir, dr), dr)
    /\ UNCHANGED agg

\* smc.read_key_info(key), as the first step of every read
Smc_read_key_info(keys, irs) ==
    /\ component = "smc"
    /\ pc = "open"
    /\ \E key \in keys : \E ir \in InfoRepliesFor(key, irs) :
          LET i == read_key_info(SmcState, key, ir) IN
          Returned("read_key_info", key,
                   [st |-> i.st, res |-> i.res, info |-> i.res, data |-> NoOp],
                   ReplyTransportError)
    /\ UNCHANGED agg

\* The state right after Smc::new() returned Ok.
SmcOpen ==
    /\ component = "smc"
    /\ pc = "open"
    /\ native = Create(NativeInit, "connection")
    /\ calls = [p \in Primitives |-> IF p = "IOServiceOpen" THEN 1 ELSE 0]
    /\ trace = <<>>
    /\ samples = 0
    /\ staleUse = FALSE
    /\ grp = 0
    /\ services = <<1>>
    /\ key_cache = NoCache
    /\ infoOk = NoCache
    /\ wire = <<>>
    /\ last = NoOp
    /\ agg = NoAgg
    /\ calc = NoCalc
    /\ rec = NoRec
    /\ dash = NoDash
    /\ loop = NoLoop

\* ---------------------------------------------------------------------------
\* Smc aggregators: the keys they walk
\* ---------------------------------------------------------------------------

Digit(i) == 48 + i

\* format!("F{}", i) followed by "Ac" / "Mn" / "Mx" / "Tg"
FanKey(i, suffix) == <<70, Digit(i)>> \o suffix
SuffixAc == <<65, 99>>
SuffixMn == <<77, 110>>
SuffixMx == <<77, 120>>
SuffixTg == <<84, 103>>

\* format!("VC{:02}", i), format!("IC{:02}", i)
RailKey2(a, b, i) == <<a, b, Digit(i \div 10), Digit(i % 10)>>

\* format!("VG0{}", i), format!("IG0{}", i)
RailKey1(a, b, i) == <<a, b, 48, Digit(i)>>

KeyVDMM == <<86, 68, 77, 77>>
KeyPSTR == <<80, 83, 84, 82>>
KeyB0CC == <<66, 48, 67, 67>>
KeyB0FC == <<66, 48, 70, 67>>
KeyB0AV == <<66, 48, 65, 86>>
KeyB0AC == <<66, 48, 65, 67>>
KeyTB0T == <<84, 66, 48, 84>>
KeyB0TE == <<66, 48, 84, 69>>
KeyB0CT == <<66, 48, 67, 84>>

\* "T" family digit/letter
SensorKey(family, c) == <<84, family, 48, c>>

\* get_all_temperatures: known_keys (TC0P Tp01 Tp05 Tp09 Tp0D Te05 Te0L TG0P
\* Tg05 Tm02 Tm08 TB1T TB2T TW0P)
known_keys ==
    <<KeyTC0P, SensorKey(112, 49), SensorKey(112, 53), SensorKey(112, 57),
      SensorKey(112, 68), SensorKey(101, 53), SensorKey(101, 76), SensorKey(71, 80),
      SensorKey(103, 53), SensorKey(109, 50), SensorKey(109, 56), <<84, 66, 49, 84>>,
      <<84, 66, 50, 84>>, SensorKey(87, 80)>>

KnownKeysRead == SubSeq(known_keys, 1, MaxKnown)

\* discover_temperature_sensors: the keys used when read_all_keys fails
\* (Te04 Te05 Te06 Te0K Te0L Te0M Te0P Te0Q Te0S Te0T, Tp04 Tp05 Tp06 Tp0C Tp0D
\* Tp0E Tp0K Tp0L Tp0M Tp0R, Tg03 Tg04 Tg05 Tg08 Tg0L Tg0M)
fallback_keys ==
    [i \in 1..10 |-> SensorKey(101, <<52, 53, 54, 75, 76, 77, 80, 81, 83, 84>>[i])]
    \o [i \in 1..10 |-> SensorKey(112, <<52, 53, 54, 67, 68, 69, 75, 76, 77, 82>>[i])]
    \o [i \in 1..6 |-> SensorKey(103, <<51, 52, 53, 56, 76, 77>>[i])]

FallbackKeysRead == SubSeq(fallback_keys, 1, MaxFallback)

\* One step of an aggregator: read `key` the way `how` says and put the value
\* into field `at`.
Item(how, key, at) == [how |-> how, key |-> key, at |-> at]

FanItems == [i \in 1..MaxFans |-> Item("fan_ac", FanKey(i - 1, SuffixAc), "actual_rpm")]

FanDetailItems(ac_key) ==
    <<Item("float", <<ac_key[1], ac_key[2]>> \o SuffixMn, "minimum_rpm"),
      Item("float", <<ac_key[1], ac_key[2]>> \o SuffixMx, "maximum_rpm"),
      Item("float", <<ac_key[1], ac_key[2]>> \o SuffixTg, "target_rpm")>>

VoltageItems ==
    [i \in 1..MaxCpuRails |-> Item("float", RailKey2(86, 67, i - 1), "cpu_voltages")]
    \o [i \in 1..MaxGpuRails |-> Item("float", RailKey1(86, 71, i - 1), "gpu_voltages")]
    \o <<Item("float", KeyVDMM, "memory_voltage")>>

CurrentItems ==
    [i \in 1..MaxCpuRails |-> Item("float", RailKey2(73, 67, i - 1), "cpu_currents")]
    \o [i \in 1..MaxGpuRails |-> Item("float", RailKey1(73, 71, i - 1), "gpu_currents")]
    \o <<Item("i16", KeyB0AC, "battery_current")>>

BatteryItems ==
    <<Item("u16", KeyB0CC, "current_capacity"),
      Item("u16", KeyB0FC, "full_charge_capacity"),
      Item("u16", KeyB0AV, "voltage"),
      Item("i16", KeyB0AC, "current"),
      Item("temp_first", KeyTB0T, "temperature"),
      Item("u16", KeyB0CT, "cycle_count")>>

KnownItems == [i \in 1..Len(KnownKeysRead) |-> Item("known", KnownKeysRead[i], "sensors")]

IndexItems(n) == [i \in 1..n |-> Item("index", <<i - 1>>, "")]

KeysOf(items) == [i \in 1..Len(items) |-> items[i].key]

IsTKey(key) == StartsWith(key, <<84>>)

\* for key in &all_keys { if key.starts_with("T") { .. } }
DiscoverItems(all_keys) ==
    LET t == SelectSeq(all_keys, IsTKey) IN
    [i \in 1..Len(t) |-> Item("discover", t[i], "")]

\* for key in &cpu_sensors { .. }
AverageItems(sensors) == [i \in 1..Len(sensors) |-> Item("average", sensors[i], "temps")]

\* ---------------------------------------------------------------------------
\* Smc aggregators, one key read per step
\* ---------------------------------------------------------------------------

TemperatureFns == {"get_cpu_temperature", "get_gpu_temperature"}

\* The call starts: its first reads, in the order the code makes them.
Start(fn) ==
    [NoAgg EXCEPT
        !.fn = fn,
        !.phase = "run",
        !.stage = IF fn \in TemperatureFns THEN "enumerate" ELSE "fields",
        !.todo = CASE fn = "get_fan_metrics" -> FanItems
                   [] fn = "get_voltage_metrics" -> VoltageItems
                   [] fn = "get_current_metrics" -> CurrentItems
                   [] fn = "get_battery_metrics" -> BatteryItems
                   [] fn = "get_all_temperatures" -> KnownItems
                   [] fn = "get_power_metrics" -> <<Item("float", KeyPSTR, "system_power")>>
                   [] OTHER -> <<Item("num_keys", KeyNumKeys, "")>>]

\* A loop that has no keys left hands over to the next loop of the call:
\* read_all_keys -> discover_temperature_sensors -> get_cpu/gpu_temperature.
RECURSIVE Advance(_)
Advance(a) ==
    IF a.todo # <<>> \/ a.stage = "fields"
    THEN a
    ELSE IF a.stage = "enumerate"
    THEN Advance([a EXCEPT !.stage = "discover", !.todo = DiscoverItems(a.all_keys)])
    ELSE IF a.stage = "discover"
    THEN Advance([a EXCEPT !.stage = "average",
                           !.todo = AverageItems(IF a.fn = "get_cpu_temperature"
                                                 THEN a.cpu_sensors
                                                 ELSE a.gpu_sensors)])
    ELSE [a EXCEPT !.stage = "fields"]

\* .map(|v| v as f32), .map(|v| v as f32 / 1000.0), .map(|v| v as u32)
Converted(item, v) ==
    CASE item.how = "float" \/ item.how = "temp_first" \/ item.how = "fan_ac" -> v
      [] item.at \in {"voltage", "current", "battery_current"} -> <<"ratio", v, 1000>>
      [] item.at = "cycle_count" -> v
      [] OTHER -> <<"ratio", v, 1>>

Field(item, v) == [at |-> item.at, key |-> item.key, v |-> v]

\* What the aggregator does with the result of the read of `item`.
Continue(a, item, res) ==
    LET ok == res.kind = "Ok" IN
    CASE item.how = "num_keys" ->
            IF ok
            THEN [a EXCEPT !.todo = IndexItems(res.val[1] * 65536 + res.val[2])]
            ELSE [a EXCEPT !.all_keys = FallbackKeysRead]
      [] item.how = "index" ->
            IF ok /\ AllAsciiGraphic(res.val)
            THEN [a EXCEPT !.all_keys = Append(@, res.val)]
            ELSE a
      [] item.how = "discover" ->
            IF ok /\ GtMinus50(res.val) /\ Lt150(res.val)
            THEN IF StartsWith(item.key, <<84, 112>>) \/ StartsWith(item.key, <<84, 101>>)
                 THEN [a EXCEPT !.cpu_sensors = Append(@, item.key)]
                 ELSE IF StartsWith(item.key, <<84, 103>>)
                 THEN [a EXCEPT !.gpu_sensors = Append(@, item.key)]
                 ELSE a
            ELSE a
      [] item.how \in {"average", "known"} ->
            IF ok /\ Gt0(res.val) /\ Lt150(res.val)
            THEN [a EXCEPT !.fields = Append(@, Field(item, res.val))]
            ELSE a
      [] item.how = "fan_ac" ->
            IF ok
            THEN [a EXCEPT !.fields = Append(@, Field(item, res.val)),
                           !.todo = FanDetailItems(item.key) \o @]
            ELSE a
      [] item.how = "temp_first" ->
            IF ok
            THEN [a EXCEPT !.fields = Append(@, Field(item, res.val))]
            ELSE [a EXCEPT !.todo = <<Item("float", KeyB0TE, "temperature")>> \o @]
      [] OTHER ->
            IF ok
            THEN [a EXCEPT !.fields = Append(@, Field(item, Converted(item, res.val)))]
            ELSE a

\* The read of `item` returned `r`: log it, drop the item, go on.
\* io: the read failed in a request (transport error or controller status).
Stepped(a, item, r, io) ==
    IF r.res.kind = "Panic"
    THEN [a EXCEPT !.phase = "panicked"]
    ELSE Advance(Continue([a EXCEPT !.todo = Tail(@),
                                    !.log = Append(@, [key |-> item.key,
                                                       how |-> item.how,
                                                       ok  |-> r.res.kind = "Ok",
                                                       io  |-> r.res.kind = "Err" /\ io])],
                          item, r.res))

FieldsAt(a, at) == SelectSeq(a.fields, LAMBDA f : f.at = at)

\* Variant: a failed key read makes the whole call fail.
FinishFailsWithKey(a) ==
    IF \E i \in 1..Len(a.log) : ~a.log[i].ok
    THEN Err("key read failed")
    ELSE Ok(a.fields)

\* The value the call returns.
Finish(a) ==
    CASE a.fn \in TemperatureFns ->
            IF a.fields = <<>>
            THEN Err("Could not read temperature")
            ELSE Ok(<<"mean", [i \in 1..Len(a.fields) |-> a.fields[i].v]>>)
      [] a.fn = "get_battery_metrics" ->
            LET cc == FieldsAt(a, "current_capacity")
                fc == FieldsAt(a, "full_charge_capacity")
            IN  IF cc # <<>> /\ fc # <<>> /\ fc[1].v[2] > 0
                THEN Ok(Append(a.fields,
                               [at  |-> "health_percent",
                                key |-> <<>>,
                                v   |-> <<"percent", cc[1].v[2], fc[1].v[2]>>]))
                ELSE Ok(a.fields)
      [] OTHER -> Ok(a.fields)

ReadItem(st, item, ir, dr) ==
    CASE item.how = "num_keys" -> read_num_keys(st, ir, dr)
      [] item.how \in {"u16", "i16"} -> read_le(st, item.key, item.how, ir, dr)
      [] OTHER -> read_float(st, item.key, ir, dr)

\* The controller's replies in the aggregator runs.
AggInfos ==
    {[data_size |-> 2, data_type |-> "sp78"], [data_size |-> 33, data_type |-> "sp78"]}

NumKeysInfos ==
    {[data_size |-> 4, data_type |-> "ui32"], [data_size |-> 2, data_type |-> "ui32"]}

NumKeysHeads == {<<0, 0, 0, n>> : n \in 0..MaxKeys}

\* payloads: 30.0 as sp78 (30 as a little-endian u16); for the temperature
\* sensors also -10.0, which only the wider of the two sanity filters accepts
AggHeads == {<<30, 0>>}

SensorHeads == {<<30, 0>>, <<246, 0>>}

\* the keys read through read_le: a 2-byte and a 1-byte payload under the tag
\* "ui16" (the generic decode would read it big-endian), bytes 1e ff
LeInfos ==
    {[data_size |-> 2, data_type |-> "ui16"], [data_size |-> 1, data_type |-> "ui16"],
     [data_size |-> 33, data_type |-> "sp78"]}

LeHeads == {<<30, 255>>}

HeadsFor(item) ==
    CASE item.how = "num_keys" -> NumKeysHeads
      [] item.how \in {"discover", "average", "known"} -> SensorHeads
      [] item.how \in {"u16", "i16"} -> LeHeads
      [] OTHER -> AggHeads

InfosFor(item) ==
    CASE item.how = "num_keys" -> NumKeysInfos
      [] item.how \in {"u16", "i16"} -> LeInfos
      [] OTHER -> AggInfos

IndexKeys ==
    {SensorKey(112, 49), SensorKey(103, 53), KeyF0Ac, <<84, 32, 48, 49>>, <<84, 255, 48, 49>>}

IndexReplies ==
    {[io |-> -536870212, key |-> <<0, 0, 0, 0>>]} \cup {[io |-> 0, key |-> k] : k \in IndexKeys}

Aggregators ==
    {"get_fan_metrics", "get_voltage_metrics", "get_current_metrics",
     "get_battery_metrics", "get_all_temperatures", "get_power_metrics"}
    \cup TemperatureFns

\* smc.get_*(): the call begins
Agg_call ==
    /\ component = "smc"
    /\ pc = "open"
    /\ agg.phase = "idle"
    /\ \E fn \in Aggregators : agg' = Advance(Start(fn))
    /\ UNCHANGED <<lifeVars, key_cache, infoOk, wire, last, calcVars>>

\* the next key of the call is read (read_float, read_le, read_num_keys)
Agg_read ==
    /\ component = "smc"
    /\ pc = "open"
    /\ agg.phase = "run"
    /\ agg.todo # <<>>
    /\ Head(agg.todo).how # "index"
    /\ LET item == Head(agg.todo) IN
           \E dr \in DataReplies(HeadsFor(item)) :
           \E ir \in InfoRepliesFor(item.key, InfoReplies(InfosFor(item))) :
              LET r == ReadItem(SmcState, item, ir, dr) IN
              /\ Returned(item.how, item.key, r, dr)
              /\ agg' = Stepped(agg, item, r,
                                r.info.kind = "Err" \/ (r.data # NoOp /\ r.data.kind = "Err"))

\* read_all_keys: the next index is read (read_key_by_index)
Agg_index ==
    /\ component = "smc"
    /\ pc = "open"
    /\ agg.phase = "run"
    /\ agg.todo # <<>>
    /\ Head(agg.todo).how = "index"
    /\ LET item == Head(agg.todo) IN
       \E reply \in IndexReplies :
          LET i == read_key_by_index(SmcState, item.key[1], reply)
              r == [st |-> i.st, res |-> i.res, info |-> NoOp, data |-> NoOp]
          IN  /\ Returned("index", item.key, r, ReplyTransportError)
              /\ agg' = Stepped(agg, item, r, reply.io # 0)

\* no key is left: the call returns
Agg_return ==
    /\ component = "smc"
    /\ pc = "open"
    /\ agg.phase = "run"
    /\ agg.todo = <<>>
    /\ agg' = [agg EXCEPT !.phase = "done", !.ret = Finish(agg)]
    /\ UNCHANGED <<lifeVars, key_cache, infoOk, wire, last, calcVars>>

InitAgg == SmcOpen

NextAgg ==
    \/ Agg_call
    \/ Agg_read
    \/ Agg_index
    \/ Agg_return

SpecAgg == InitAgg /\ [][NextAgg]_vars

\* ---------------------------------------------------------------------------
\* Specification of the typed key reads (decode table)
\* ---------------------------------------------------------------------------

DecodeTypes ==
    {"flt ", "ui8 ", "ui16", "ui32", "si8 ", "si16", "flag", "ch8*", "{fds",
     "hex_", "ioft", "fp00", "UI16", NonUtf8Type} \cup FpTypes \cup SpTypes

DecodeSizes == {0, 1, 2, 3, 4, 8, 16, 32, 33}

DecodeInfos == {[data_size |-> n, data_type |-> t] : n \in DecodeSizes, t \in DecodeTypes}

DecodeHeads ==
    {<<0, 0, 0, 0>>, <<7, 1, 2, 3>>, <<255, 254, 3, 4>>, <<128, 0, 0, 1>>,
     <<65, 66, 0, 67>>, <<0, 0, 42, 66>>}

Decode_read_value ==
    Smc_read_value({KeyTC0P}, InfoReplies(DecodeInfos), DataReplies(DecodeHeads))

InitDecode == SmcOpen

NextDecode == Decode_read_value

SpecDecode == InitDecode /\ [][NextDecode]_vars

\* ---------------------------------------------------------------------------
\* Specification of repeated reads on one connection (key-info cache)
\* ---------------------------------------------------------------------------

SmcKeys == {KeyTC0P, KeyF0Ac, KeyShort, KeyLong}

SmcInfos ==
    {[data_size |-> 2, data_type |-> "sp78"],
     [data_size |-> 4, data_type |-> "flt "],
     [data_size |-> 33, data_type |-> "ch8*"]}

SmcHeads == {<<30, 128, 0, 0>>, <<0, 0, 42, 66>>}

Keys_read_value == Smc_read_value(SmcKeys, InfoReplies(SmcInfos), DataReplies(SmcHeads))

Keys_read_le ==
    Smc_read_le(SmcKeys, {"u16", "i16", "u32", "i32"},
                InfoReplies(SmcInfos), DataReplies(SmcHeads))

Keys_read_key_info == Smc_read_key_info(SmcKeys, InfoReplies(SmcInfos))

InitSmc == SmcOpen

NextSmc ==
    \/ Keys_read_value
    \/ Keys_read_le
    \/ Keys_read_key_info

SpecSmc == InitSmc /\ [][NextSmc]_vars

\* ---------------------------------------------------------------------------
\* Frequency tables: the voltage-states blobs of the pmgr device
\* ---------------------------------------------------------------------------

\* Option<T>
None == [kind |-> "None"]
Some(v) == [kind |-> "Some", val |-> v]

\* A u32 is kept as its two 16-bit halves <<high, low>>.
\* u32::from_le_bytes([b0, b1, b2, b3])
U32FromLe(b0, b1, b2, b3) == <<b2 + 256 * b3, b0 + 256 * b1>>

U32IsZero(x) == x[1] = 0 /\ x[2] = 0

\* x > high * 2^16 + low,  x < high * 2^16 + low
U32Gt(x, high, low) == x[1] > high \/ (x[1] = high /\ x[2] > low)
U32Lt(x, high, low) == x[1] < high \/ (x[1] = high /\ x[2] < low)

\* x / d in u32 arithmetic, for d <= 1_000_000 (long division, a byte at a time)
U32Div(x, d) ==
    LET q0 == x[1] \div d
        t1 == (x[1] % d) * 256 + (x[2] \div 256)
        t2 == (t1 % d) * 256 + (x[2] % 256)
    IN  (q0 * 256 + (t1 \div d)) * 256 + (t2 \div d)

\* obj_val.chunks_exact(8): the whole 8-byte chunks; a remainder is left out
ChunksExact8(bytes) ==
    [i \in 1..(Len(bytes) \div 8) |-> SubSeq(bytes, 8 * (i - 1) + 1, 8 * i)]

\* Variant: the leading 4 bytes read most significant byte first.
ChunkFreqBigEndian(chunk) == U32FromLe(chunk[4], chunk[3], chunk[2], chunk[1])

\* u32::from_le_bytes([chunk[0], chunk[1], chunk[2], chunk[3]])
ChunkFreq(chunk) == U32FromLe(chunk[1], chunk[2], chunk[3], chunk[4])

IsNonZeroFreq(f) == ~U32IsZero(f)

\* pub fn parse_dvfs_mhz(dict, key) -> Option<Vec<u32>>
\* data: the bytes stored under the key, or None when the key is missing
parse_dvfs_mhz(data) ==
    IF data.kind = "None"
    THEN None
    ELSE LET chunks == ChunksExact8(data.val)
             freqs == SelectSeq([i \in 1..Len(chunks) |-> ChunkFreq(chunks[i])],
                                IsNonZeroFreq)
         IN  IF freqs = <<>> THEN None ELSE Some(freqs)

\* A hex string is the sequence of its characters: 0..15 for a hex digit, 32
\* for a space, 99 for any other character.
\* hex::decode(&hex_str).ok()
HexDecode(chars) ==
    IF Len(chars) % 2 # 0 \/ \E i \in 1..Len(chars) : chars[i] > 15
    THEN None
    ELSE Some([i \in 1..(Len(chars) \div 2) |-> 16 * chars[2 * i - 1] + chars[2 * i]])

IsNoSpace(c) == c # 32
IsPositive(n) == n > 0

\* frequencies.sort_unstable()
RECURSIVE SortUnstable(_)
SortUnstable(s) ==
    IF s = <<>>
    THEN <<>>
    ELSE LET rest == SortUnstable(Tail(s)) IN
         SelectSeq(rest, LAMBDA x : x <= Head(s)) \o <<Head(s)>>
            \o SelectSeq(rest, LAMBDA x : x > Head(s))

\* frequencies.dedup(): consecutive repeats removed
RECURSIVE Dedup(_)
Dedup(s) ==
    IF Len(s) <= 1
    THEN s
    ELSE IF s[1] = s[2] THEN Dedup(Tail(s)) ELSE <<s[1]>> \o Dedup(Tail(s))

\* fn parse_voltage_states(hex_str: &str, scale: u32) -> Option<Vec<u32>>
parse_voltage_states(hex_str, scale) ==
    LET bytes == HexDecode(SelectSeq(hex_str, IsNoSpace)) IN
    IF bytes.kind = "None"
    THEN None
    ELSE IF Len(bytes.val) % 8 # 0
    THEN None
    ELSE LET chunks == ChunksExact8(bytes.val)
             mhz == [i \in 1..Len(chunks) |-> U32Div(ChunkFreq(chunks[i]), scale)]
             frequencies == Dedup(SortUnstable(SelectSeq(mhz, IsPositive)))
         IN  IF frequencies = <<>> THEN None ELSE Some(frequencies)

\* freqs.into_iter().map(|f| f / cpu_scale).collect()
Scaled(freqs, scale) == [i \in 1..Len(freqs) |-> U32Div(freqs[i], scale)]

\* Variant: the scale is decided by the largest raw value.
CpuScaleFromLast(sample_freqs) ==
    IF sample_freqs.kind = "None"
    THEN 1000000
    ELSE LET f == sample_freqs.val[Len(sample_freqs.val)] IN
         IF U32Gt(f, 1525, 57600) THEN 1000000
         ELSE IF U32Lt(f, 0, 10000) THEN 1000
         ELSE 1000000

\* get_cpu_frequencies: cpu_scale from the first sampled frequency
\* (100_000_000 = 1525 * 2^16 + 57600)
CpuScale(sample_freqs) ==
    IF sample_freqs.kind = "None"
    THEN 1000000
    ELSE LET first_freq == sample_freqs.val[1] IN
         IF U32Gt(first_freq, 1525, 57600) THEN 1000000
         ELSE IF U32Lt(first_freq, 0, 10000) THEN 1000
         ELSE 1000000

\* pub fn get_cpu_frequencies() -> CpuFrequencyResult, as a function of the
\* pmgr properties: pmgr found or not, the blobs under "voltage-states1-sram"
\* and "voltage-states5-sram"
get_cpu_frequencies(pmgr, vs1, vs5) ==
    IF ~pmgr
    THEN [ecpu_freqs |-> None, pcpu_freqs |-> None, cpu_scale |-> 1000000]
    ELSE LET e == parse_dvfs_mhz(vs1)
             p == parse_dvfs_mhz(vs5)
             cpu_scale == CpuScale(IF e.kind = "Some" THEN e ELSE p)
         IN  [ecpu_freqs |-> IF e.kind = "Some" THEN Some(Scaled(e.val, cpu_scale)) ELSE None,
              pcpu_freqs |-> IF p.kind = "Some" THEN Some(Scaled(p.val, cpu_scale)) ELSE None,
              cpu_scale  |-> cpu_scale]

\* pub fn get_gpu_frequencies() -> CpuFrequencyResult ("voltage-states9")
get_gpu_frequencies(pmgr, vs9) ==
    IF ~pmgr
    THEN None
    ELSE LET g == parse_dvfs_mhz(vs9) IN
         IF g.kind = "Some" THEN Some(Scaled(g.val, 1000000)) ELSE None

\* cpu_scale of get_cpu_frequencies_from_ioreg, from the chip name
ChipScale(chip_name) ==
    IF chip_name.kind = "Some"
    THEN IF chip_name.val \in {"Apple M1", "Apple M2 Pro", "Apple M3 Max"}
         THEN 1000 * 1000
         ELSE 1000
    ELSE 1000 * 1000

\* get_cpu_frequencies_from_ioreg, as a function of the chip name and of the
\* hex strings ioreg prints for the two voltage-states keys (None: no line)
get_cpu_frequencies_from_ioreg(chip_name, hex1, hex5) ==
    LET cpu_scale == ChipScale(chip_name) IN
    [ecpu_freqs |-> IF hex1.kind = "Some" THEN parse_voltage_states(hex1.val, cpu_scale) ELSE None,
     pcpu_freqs |-> IF hex5.kind = "Some" THEN parse_voltage_states(hex5.val, cpu_scale) ELSE None,
     cpu_scale  |-> cpu_scale]

\* The frequency halves of the records the device tables are drawn from:
\* 0, 600, 5_000, 50_000_000, 600_000_000 and 3_500_000_000 (little-endian)
FreqBytes ==
    { <<0, 0, 0, 0>>, <<88, 2, 0, 0>>, <<136, 19, 0, 0>>,
      <<128, 240, 250, 2>>, <<0, 70, 195, 35>>, <<0, 195, 157, 208>> }

\* the voltage half of a record
VoltBytes == <<44, 1, 0, 0>>

Records == { f \o VoltBytes : f \in FreqBytes }

RECURSIVE Concat(_)
Concat(ss) == IF ss = <<>> THEN <<>> ELSE Head(ss) \o Concat(Tail(ss))

\* blobs of whole records
WholeBlobs == { Concat(rs) : rs \in UNION { [1..k -> Records] : k \in 0..MaxRecords } }

\* a blob may end in a partial record
Blobs == WholeBlobs \cup { b \o <<0, 70, 195, 35>> : b \in WholeBlobs }

Optional(S) == {None} \cup { Some(x) : x \in S }

\* the hex characters of a byte string
HexOf(bytes) ==
    [i \in 1..(2 * Len(bytes)) |->
        IF i % 2 = 1 THEN bytes[(i + 1) \div 2] \div 16 ELSE bytes[i \div 2] % 16]

\* the strings parse_voltage_states is given: the hex of a blob, as printed,
\* with a space, with a character missing, with a character that is no digit
HexStrings ==
    UNION { LET h == HexOf(b) IN
            {h, <<32>> \o h, h \o <<10>>, h \o <<99, 99>>} : b \in Blobs }

\* the tables get_cpu_frequencies reads: blobs of whole records
CpuBlobs == { b \in Blobs : Len(b) % 8 = 0 }

ChipNames == Optional({"Apple M1", "Apple M2 Pro", "Apple M3 Max", "Apple M4"})

\* no computation has been done yet
Fresh == component = "calc" /\ pc = "start"

Computed(op, input, result) ==
    /\ pc' = "done"
    /\ calc' = [op |-> op, input |-> input, result |-> result]
    /\ UNCHANGED <<component, native, calls, trace, samples, staleUse, grp,
                   services, smcVars, loop, rec, dash>>

Call_parse_dvfs_mhz ==
    /\ Fresh
    /\ \E data \in Optional(Blobs) :
        Computed("parse_dvfs_mhz", data, parse_dvfs_mhz(data))

Call_parse_voltage_states ==
    /\ Fresh
    /\ \E hex_str \in HexStrings, scale \in {1000, 1000 * 1000} :
        Computed("parse_voltage_states", [hex_str |-> hex_str, scale |-> scale],
                 parse_voltage_states(hex_str, scale))

Call_get_cpu_frequencies ==
    /\ Fresh
    /\ \E pmgr \in BOOLEAN, vs1 \in Optional(CpuBlobs), vs5 \in Optional(CpuBlobs) :
        Computed("get_cpu_frequencies", [pmgr |-> pmgr, vs1 |-> vs1, vs5 |-> vs5],
                 get_cpu_frequencies(pmgr, vs1, vs5))

Call_get_gpu_frequencies ==
    /\ Fresh
    /\ \E pmgr \in BOOLEAN, vs9 \in Optional(Blobs) :
        Computed("get_gpu_frequencies", [pmgr |-> pmgr, vs9 |-> vs9],
                 get_gpu_frequencies(pmgr, vs9))

Call_get_cpu_frequencies_from_ioreg ==
    /\ Fresh
    /\ \E chip_name \in ChipNames, hex1 \in Optional({HexOf(b) : b \in CpuBlobs}) :
        Computed("get_cpu_frequencies_from_ioreg",
                 [chip_name |-> chip_name, hex1 |-> hex1, hex5 |-> None],
                 get_cpu_frequencies_from_ioreg(chip_name, hex1, None))

\* ---------------------------------------------------------------------------
\* f64 arithmetic on non-negative values
\* ---------------------------------------------------------------------------
\* A value is [m |-> limbs, e |-> k]: the whole number m times 2^k, where m is
\* a sequence of base-2^15 digits, least significant first (<<>> for zero).
\* Every operation computes the exact result and rounds it to 53 significant
\* bits, ties to even, as the hardware does.

Min2(a, b) == IF a < b THEN a ELSE b

LimbBits == 15
Limb == 32768

\* leading zero digits removed
NNorm(a) ==
    LET nz == { i \in 1..Len(a) : a[i] # 0 } IN
    IF nz = {} THEN <<>> ELSE SubSeq(a, 1, CHOOSE i \in nz : \A j \in nz : j <= i)

NOf(n) == NNorm(<<n % Limb, (n \div Limb) % Limb, n \div (Limb * Limb)>>)

\* the value of a number of at most two digits and a bit
NInt(a) ==
    (IF Len(a) >= 1 THEN a[1] ELSE 0)
        + (IF Len(a) >= 2 THEN a[2] * Limb ELSE 0)
        + (IF Len(a) >= 3 THEN a[3] * Limb * Limb ELSE 0)

RECURSIVE NAddCarry(_, _, _)
NAddCarry(a, b, c) ==
    IF a = <<>> /\ b = <<>>
    THEN IF c = 0 THEN <<>> ELSE <<c>>
    ELSE LET x == IF a = <<>> THEN 0 ELSE a[1]
             y == IF b = <<>> THEN 0 ELSE b[1]
         IN  <<(x + y + c) % Limb>>
                \o NAddCarry(IF a = <<>> THEN <<>> ELSE Tail(a),
                             IF b = <<>> THEN <<>> ELSE Tail(b),
                             (x + y + c) \div Limb)

NAdd(a, b) == NAddCarry(a, b, 0)

\* a * k + c for k, c below 2^15
RECURSIVE NMulSmall(_, _, _)
NMulSmall(a, k, c) ==
    IF a = <<>>
    THEN IF c = 0 THEN <<>> ELSE <<c>>
    ELSE <<(a[1] * k + c) % Limb>> \o NMulSmall(Tail(a), k, (a[1] * k + c) \div Limb)

RECURSIVE NMul(_, _)
NMul(a, b) ==
    IF a = <<>> \/ b = <<>>
    THEN <<>>
    ELSE NNorm(NAdd(NMulSmall(a, b[1], 0), <<0>> \o NMul(a, Tail(b))))

\* a / k and a % k for 0 < k <= 2^15, from the most significant digit; the
\* digits of the quotient so far in q, the running remainder in r
RECURSIVE NDivSmall(_, _, _, _)
NDivSmall(a, k, r, q) ==
    IF a = <<>>
    THEN [q |-> NNorm(q), r |-> r]
    ELSE NDivSmall(SubSeq(a, 1, Len(a) - 1), k,
                   (r * Limb + a[Len(a)]) % k,
                   <<(r * Limb + a[Len(a)]) \div k>> \o q)

\* a * 2^n
NShl(a, n) ==
    IF a = <<>>
    THEN <<>>
    ELSE [i \in 1..(n \div LimbBits) |-> 0] \o NMulSmall(a, 2 ^ (n % LimbBits), 0)

\* a / 2^n, and whether a bit that was shifted out was set
NShr(a, n) ==
    LET whole == n \div LimbBits
        kept == SubSeq(a, whole + 1, Len(a))
        d == NDivSmall(kept, 2 ^ (n % LimbBits), 0, <<>>)
    IN  [q |-> d.q,
         sticky |-> d.r # 0 \/ \E i \in 1..Min2(whole, Len(a)) : a[i] # 0]

\* number of bits of a
NBitLen(a) ==
    IF a = <<>>
    THEN 0
    ELSE LimbBits * (Len(a) - 1)
            + (CHOOSE k \in 1..LimbBits : 2 ^ (k - 1) <= a[Len(a)] /\ a[Len(a)] < 2 ^ k)

NLess(a, b) ==
    \/ Len(a) < Len(b)
    \/ /\ Len(a) = Len(b)
       /\ \E i \in 1..Len(a) :
            /\ a[i] < b[i]
            /\ \A j \in (i + 1)..Len(a) : a[j] = b[j]

IsOdd(a) == a # <<>> /\ a[1] % 2 = 1

\* m * 2^e rounded to p significant bits, ties to even
Round(m, e, p) ==
    IF NBitLen(m) <= p
    THEN [m |-> m, e |-> e]
    ELSE LET d == NBitLen(m) - p
             s == NShr(m, d - 1)
             q == NDivSmall(s.q, 2, 0, <<>>).q
             up == IsOdd(s.q) /\ (s.sticky \/ IsOdd(q))
         IN  [m |-> IF up THEN NAdd(q, <<1>>) ELSE q, e |-> e + d]

\* number of quotient bits computed below the last bit of the dividend
DivGuardBits == 75

F64(n) == [m |-> NOf(n), e |-> 0]

\* x / k for a whole number 0 < k <= 2^15: the quotient to DivGuardBits
\* places and one more bit that is set when the division left a remainder
F64DivInt(x, k) ==
    LET d == NDivSmall(NShl(x.m, DivGuardBits), k, 0, <<>>) IN
    Round(NMulSmall(d.q, 2, IF d.r # 0 THEN 1 ELSE 0), x.e - DivGuardBits - 1, 53)

F64Mul(x, y) == Round(NMul(x.m, y.m), x.e + y.e, 53)

\* both values over the smaller exponent
Aligned(x, y) ==
    LET e == IF x.e < y.e THEN x.e ELSE y.e IN
    [a |-> NShl(x.m, x.e - e), b |-> NShl(y.m, y.e - e), e |-> e]

F64Add(x, y) ==
    LET al == Aligned(x, y) IN Round(NNorm(NAdd(al.a, al.b)), al.e, 53)

F64Less(x, y) ==
    LET al == Aligned(x, y) IN NLess(al.a, al.b)

\* f64::max
F64Max(x, y) == IF F64Less(x, y) THEN y ELSE x

\* `as u32` of a value below 2^31: the fraction is cut off
F64AsU32(x) ==
    IF x.e >= 0 THEN NInt(NShl(x.m, x.e)) ELSE NInt(NShr(x.m, -x.e).q)

\* n = m * 2^k with m odd, as <<m, e + k>>
RECURSIVE OddPart(_, _)
OddPart(n, e) ==
    IF n = 0 THEN <<0, 0>>
    ELSE IF n % 2 = 1 THEN <<n, e>>
    ELSE OddPart(n \div 2, e + 1)

\* `as f32`: rounded to 24 significant bits; given as <<m, e>> with m odd or
\* zero, for the value m * 2^e
F64AsF32(x) ==
    LET r == Round(x.m, x.e, 24) IN OddPart(NInt(r.m), r.e)

\* ---------------------------------------------------------------------------
\* f32 arithmetic on non-negative values
\* ---------------------------------------------------------------------------
\* The same representation, rounded to 24 significant bits.

\* a - b - c for a >= b + c
RECURSIVE NSubBorrow(_, _, _)
NSubBorrow(a, b, c) ==
    IF a = <<>>
    THEN <<>>
    ELSE LET y == (IF b = <<>> THEN 0 ELSE b[1]) + c IN
         <<(a[1] + Limb - y) % Limb>>
            \o NSubBorrow(Tail(a), IF b = <<>> THEN <<>> ELSE Tail(b),
                          IF a[1] < y THEN 1 ELSE 0)

NSub(a, b) == NNorm(NSubBorrow(a, b, 0))

\* one digit of the dividend taken into the remainder r a bit at a time, the
\* most significant of the n remaining bits first; q collects the quotient bits
RECURSIVE DivBits(_, _, _, _, _)
DivBits(digit, n, b, r, q) ==
    IF n = 0
    THEN [q |-> q, r |-> r]
    ELSE LET bit == (digit \div (2 ^ (n - 1))) % 2
             r2 == NMulSmall(r, 2, bit)
         IN  IF NLess(r2, b)
             THEN DivBits(digit, n - 1, b, r2, 2 * q)
             ELSE DivBits(digit, n - 1, b, NSub(r2, b), 2 * q + 1)

\* a / b and a % b for b > 0, a digit of a at a time from the most significant
RECURSIVE NDivMod(_, _, _, _)
NDivMod(a, b, r, q) ==
    IF a = <<>>
    THEN [q |-> NNorm(q), r |-> r]
    ELSE LET d == DivBits(a[Len(a)], LimbBits, b, r, 0) IN
         NDivMod(SubSeq(a, 1, Len(a) - 1), b, d.r, <<d.q>> \o q)

\* `as f32` of a whole number
F32(n) == Round(NOf(n), 0, 24)

\* x / y for y > 0: the quotient to at least 26 significant bits and one more
\* bit that is set when the division left a remainder
F32Div(x, y) ==
    LET need == 26 + NBitLen(y.m) - NBitLen(x.m)
        guard == IF need > 0 THEN need ELSE 0
        d == NDivMod(NShl(x.m, guard), y.m, <<>>, <<>>)
    IN  Round(NMulSmall(d.q, 2, IF d.r # <<>> THEN 1 ELSE 0),
              x.e - y.e - guard - 1, 24)

F32Add(x, y) ==
    LET al == Aligned(x, y) IN Round(NNorm(NAdd(al.a, al.b)), al.e, 24)

\* the value as <<m, e>> with m odd or zero, for m * 2^e
F32Value(x) == OddPart(NInt(x.m), x.e)

\* ---------------------------------------------------------------------------
\* Frequency and utilization from performance state residencies
\* ---------------------------------------------------------------------------

IdleNames == {"IDLE", "DOWN", "OFF"}

\* items.iter().position(|x| x.0 != "IDLE" && x.0 != "DOWN" && x.0 != "OFF")
\*      .unwrap_or(0), counted from 0
Offset(items) ==
    LET active == { i \in 1..Len(items) : items[i][1] \notin IdleNames } IN
    IF active = {}
    THEN 0
    ELSE (CHOOSE i \in active : \A j \in active : i <= j) - 1

RECURSIVE SumTicks(_, _)
SumTicks(items, from) ==
    IF from > Len(items) THEN 0 ELSE items[from][2] + SumTicks(items, from + 1)

\* the loop `for i in 0..n`: avg_freq += percent * freqs[i] as f64
RECURSIVE WeightedSum(_, _, _, _, _)
WeightedSum(items, freqs, offset, usage, n) ==
    IF n = 0
    THEN F64(0)
    ELSE LET i == n - 1
             percent == F64DivInt(F64(items[i + offset + 1][2]), usage)
         IN  F64Add(WeightedSum(items, freqs, offset, usage, n - 1),
                    F64Mul(percent, F64(freqs[i + 1])))

\* Variant: the utilization is taken relative to the lowest frequency.
calc_freq_from_min(items, freqs) ==
    LET offset == Offset(items)
        usage == SumTicks(items, offset + 1)
        total == SumTicks(items, 1)
    IN  IF usage = 0 \/ total = 0 \/ freqs = <<>>
        THEN <<0, <<0, 0>>>>
        ELSE LET avg_freq == WeightedSum(items, freqs, offset, usage,
                                         Min2(Len(freqs), Len(items) - offset))
                 usage_ratio == F64DivInt(F64(usage), total)
                 min_freq == F64(freqs[1])
                 from_max == F64DivInt(F64Mul(F64Max(avg_freq, min_freq), usage_ratio),
                                       freqs[1])
             IN  <<F64AsU32(avg_freq), F64AsF32(from_max)>>

\* fn calc_freq(item, freqs) -> (u32, f32), given the residencies of the item
calc_freq(items, freqs) ==
    LET offset == Offset(items)
        usage == SumTicks(items, offset + 1)
        total == SumTicks(items, 1)
    IN  IF usage = 0 \/ total = 0 \/ freqs = <<>>
        THEN <<0, <<0, 0>>>>
        ELSE LET avg_freq == WeightedSum(items, freqs, offset, usage,
                                         Min2(Len(freqs), Len(items) - offset))
                 usage_ratio == F64DivInt(F64(usage), total)
                 min_freq == F64(freqs[1])
                 max_freq == freqs[Len(freqs)]
                 from_max == F64DivInt(F64Mul(F64Max(avg_freq, min_freq), usage_ratio),
                                       max_freq)
             IN  <<F64AsU32(avg_freq), F64AsF32(from_max)>>

\* the number of f64 divisions a call of calc_freq evaluates: none before the
\* early return, then one per turn of the loop, usage / total, and / max_freq
calc_freq_divisions(items, freqs) ==
    LET offset == Offset(items)
        usage == SumTicks(items, offset + 1)
        total == SumTicks(items, 1)
    IN  IF usage = 0 \/ total = 0 \/ freqs = <<>>
        THEN 0
        ELSE Min2(Len(freqs), Len(items) - offset) + 2

\* the residencies of a channel: state names with their ticks
TickValues == 0..MaxTicks \cup {MaxTicks + 2}

StateNames ==
    { <<"IDLE", "P1", "P2", "P3">>, <<"IDLE", "DOWN">>, <<"OFF", "P1">>,
      <<"P1", "IDLE", "P2">> }

Residencies ==
    UNION { { [i \in 1..Len(names) |-> <<names[i], ticks[i]>>] :
                ticks \in [1..Len(names) -> TickValues] } : names \in StateNames }
        \cup { <<<<"IDLE", 100>>, <<"P1", 300>>, <<"P2", 600>>>> }

\* frequency ladders in MHz
Ladders ==
    { <<>>, <<1000, 2000>>, <<1000, 2000, 3000>>, <<600, 972, 1332>>,
      <<600, 912, 1284, 1752, 2004>> }

Call_calc_freq ==
    /\ Fresh
    /\ \E items \in Residencies, freqs \in Ladders :
        Computed("calc_freq", [items |-> items, freqs |-> freqs],
                 calc_freq(items, freqs))

InitCalc ==
    /\ component = "calc"
    /\ pc = "start"
    /\ native = NativeInit
    /\ calls = [p \in Primitives |-> 0]
    /\ trace = <<>>
    /\ samples = 0
    /\ staleUse = FALSE
    /\ grp = 0
    /\ services = <<>>
    /\ key_cache = NoCache
    /\ infoOk = NoCache
    /\ wire = <<>>
    /\ last = NoOp
    /\ agg = NoAgg
    /\ calc = NoCalc
    /\ rec = NoRec
    /\ dash = NoDash
    /\ loop = NoLoop

NextFreq ==
    \/ Call_parse_dvfs_mhz
    \/ Call_parse_voltage_states
    \/ Call_get_cpu_frequencies
    \/ Call_get_gpu_frequencies
    \/ Call_get_cpu_frequencies_from_ioreg
    \/ Call_calc_freq

SpecFreq == InitCalc /\ [][NextFreq]_vars

\* ---------------------------------------------------------------------------
\* A performance sample from the channels of a delta
\* ---------------------------------------------------------------------------

\* a channel name is the sequence of its characters
ECPU == <<"E", "C", "P", "U">>
PCPU == <<"P", "C", "P", "U">>
GPUPH == <<"G", "P", "U", "P", "H">>

\* channel.contains(pat)
Contains(name, pat) ==
    \E i \in 0..(Len(name) - Len(pat)) : SubSeq(name, i + 1, i + Len(pat)) = pat

\* Variant: the two name tests are made independently of each other.
ClusterOfEither(ch) ==
    IF ch.group = "CPU Stats" /\ ch.subgroup = "CPU Core Performance States"
    THEN (IF Contains(ch.name, ECPU) THEN {"ecpu"} ELSE {})
            \cup (IF Contains(ch.name, PCPU) THEN {"pcpu"} ELSE {})
    ELSE {}

\* the vectors a channel is pushed to: ecpu_usages, else pcpu_usages
ClusterOf(ch) ==
    IF ch.group = "CPU Stats" /\ ch.subgroup = "CPU Core Performance States"
    THEN IF Contains(ch.name, ECPU) THEN {"ecpu"}
         ELSE IF Contains(ch.name, PCPU) THEN {"pcpu"}
         ELSE {}
    ELSE {}

\* Variant: the GPUPH channel is computed against the whole ladder.
GpuUsageOfWholeLadder(gpu_usage, ch, gpu_freqs) ==
    IF ch.group = "GPU Stats" /\ ch.subgroup = "GPU Performance States"
        /\ ch.name = GPUPH /\ gpu_freqs # <<>>
    THEN calc_freq(ch.items, gpu_freqs)
    ELSE gpu_usage

\* sample.gpu_usage after the channel: calc_freq(item, &gpu_freqs[1..]) for
\* the GPUPH channel when the ladder is not empty, else what it was
GpuUsageOf(gpu_usage, ch, gpu_freqs) ==
    IF ch.group = "GPU Stats" /\ ch.subgroup = "GPU Performance States"
        /\ ch.name = GPUPH /\ gpu_freqs # <<>>
    THEN calc_freq(ch.items, Tail(gpu_freqs))
    ELSE gpu_usage

\* the loop over the channels: the two vectors and sample.gpu_usage after
\* the first n channels
RECURSIVE ParseChannels(_, _, _, _, _)
ParseChannels(channels, n, ecpu_freqs, pcpu_freqs, gpu_freqs) ==
    IF n = 0
    THEN [ecpu_usages |-> <<>>, pcpu_usages |-> <<>>, gpu_usage |-> <<0, <<0, 0>>>>]
    ELSE LET before == ParseChannels(channels, n - 1, ecpu_freqs, pcpu_freqs,
                                     gpu_freqs)
             ch == channels[n]
         IN  [ecpu_usages |->
                 IF "ecpu" \in ClusterOf(ch)
                 THEN Append(before.ecpu_usages, calc_freq(ch.items, ecpu_freqs))
                 ELSE before.ecpu_usages,
              pcpu_usages |->
                 IF "pcpu" \in ClusterOf(ch)
                 THEN Append(before.pcpu_usages, calc_freq(ch.items, pcpu_freqs))
                 ELSE before.pcpu_usages,
              gpu_usage |-> GpuUsageOf(before.gpu_usage, ch, gpu_freqs)]

\* a value of calc_freq's f32 as an operand
F32Of(v) == [m |-> NOf(v[1]), e |-> v[2]]

\* usages.iter().map(|x| x.0 as f32).sum::<f32>() over the first n usages
RECURSIVE SumFreqF32(_, _)
SumFreqF32(usages, n) ==
    IF n = 0 THEN F32(0) ELSE F32Add(SumFreqF32(usages, n - 1), F32(usages[n][1]))

\* usages.iter().map(|x| x.1).sum::<f32>() over the first n usages
RECURSIVE SumUtilF32(_, _)
SumUtilF32(usages, n) ==
    IF n = 0 THEN F32(0) ELSE F32Add(SumUtilF32(usages, n - 1), F32Of(usages[n][2]))

\* (avg_freq as u32, avg_util) of a vector of usages, (0, 0.0) when it is empty
AverageUsage(usages) ==
    IF usages = <<>>
    THEN <<0, <<0, 0>>>>
    ELSE LET len == F32(Len(usages)) IN
         <<F64AsU32(F32Div(SumFreqF32(usages, Len(usages)), len)),
           F32Value(F32Div(SumUtilF32(usages, Len(usages)), len))>>

\* fn parse_sample(data) -> PerformanceSample, given the channel array of the
\* data (None when it has no "IOReportChannels") and the three ladders; the
\* two vectors are kept beside the sample
parse_sample(data, ecpu_freqs, pcpu_freqs, gpu_freqs) ==
    LET channels == IF data = None THEN <<>> ELSE data.val
        done == ParseChannels(channels, Len(channels), ecpu_freqs, pcpu_freqs,
                              gpu_freqs)
    IN  [ecpu_usage |-> AverageUsage(done.ecpu_usages),
         pcpu_usage |-> AverageUsage(done.pcpu_usages),
         gpu_usage |-> done.gpu_usage,
         ecpu_usages |-> done.ecpu_usages,
         pcpu_usages |-> done.pcpu_usages]

\* the group, subgroup and name of the channels of a delta
ChannelKinds ==
    { <<"CPU Stats", "CPU Core Performance States", <<"E", "C", "P", "U", "0">>>>,
      <<"CPU Stats", "CPU Core Performance States", <<"P", "C", "P", "U", "1">>>>,
      <<"CPU Stats", "CPU Core Performance States",
        <<"P", "C", "P", "U", "-", "E", "C", "P", "U">>>>,
      <<"CPU Stats", "CPU Core Performance States", <<"C", "P", "U", "0">>>>,
      <<"CPU Stats", "CPU Complex Performance States", <<"E", "C", "P", "U">>>>,
      <<"Energy Model", "CPU Core Performance States", <<"P", "C", "P", "U", "1">>>>,
      <<"GPU Stats", "GPU Performance States", <<"G", "P", "U", "P", "H">>>> }

ChannelResidencies ==
    { <<<<"IDLE", 1>>, <<"P1", 1>>, <<"P2", 2>>>>,
      <<<<"OFF", 3>>, <<"P1", 2>>, <<"P2", 1>>>> }

PerfChannels ==
    { [group |-> k[1], subgroup |-> k[2], name |-> k[3], items |-> items] :
        k \in ChannelKinds, items \in ChannelResidencies }

PerfData ==
    Optional(UNION { [1..n -> PerfChannels] : n \in 0..MaxPerfChannels })

\* the efficiency, performance and GPU ladders the sample is parsed against
PerfLadders ==
    { <<<<600, 972>>, <<1000, 2000>>, <<>>>>,
      <<<<600, 972>>, <<1000, 2000>>, <<338>>>>,
      <<<<600, 972>>, <<1000, 2000>>, <<338, 618, 796>>>>,
      <<<<>>, <<1000, 2000>>, <<338, 618, 796>>>> }

Call_parse_sample ==
    /\ Fresh
    /\ \E data \in PerfData, freqs \in PerfLadders :
        Computed("parse_sample",
                 [data |-> data, ecpu_freqs |-> freqs[1], pcpu_freqs |-> freqs[2],
                  gpu_freqs |-> freqs[3]],
                 parse_sample(data, freqs[1], freqs[2], freqs[3]))

NextSample == Call_parse_sample

SpecSample == InitCalc /\ [][NextSample]_vars

\* ---------------------------------------------------------------------------
\* Energy channels and power metrics
\* ---------------------------------------------------------------------------

\* the second label matched for microjoules, written by its bytes
UnitMicroBytes == "<c3 8e c2 bc>J"

\* Variant: a channel with an unknown unit is taken as joules.
energy_to_watts_any_unit(raw, unit, duration_ms) ==
    LET value_per_second == F32Div(F32(raw), F32Div(F32(duration_ms), F32(1000))) IN
    CASE unit = "mJ" -> Ok(F32Div(value_per_second, F32(1000)))
      [] unit \in {"uJ", UnitMicroBytes} -> Ok(F32Div(value_per_second, F32(1000000)))
      [] unit = "nJ" -> Ok(F32Div(value_per_second, F32(1000000000)))
      [] OTHER -> Ok(value_per_second)

\* fn energy_to_watts(item, unit, duration_ms) -> Result<f32, _>, raw being
\* IOReportSimpleGetIntegerValue(item, 0)
energy_to_watts(raw, unit, duration_ms) ==
    LET raw_value == F32(raw)
        time_factor == F32Div(F32(duration_ms), F32(1000))
        value_per_second == F32Div(raw_value, time_factor)
    IN  CASE unit = "mJ" -> Ok(F32Div(value_per_second, F32(1000)))
          [] unit \in {"uJ", UnitMicroBytes} -> Ok(F32Div(value_per_second, F32(1000000)))
          [] unit = "nJ" -> Ok(F32Div(value_per_second, F32(1000000000)))
          [] OTHER -> Err("Unknown energy unit")

\* channel names: c.ends_with("CPU Energy"), c.starts_with("ANE"),
\* c.starts_with("DRAM"), c.starts_with("GPU SRAM")
EndsWithCpuEnergy == {"CPU Energy", "DIE_0_CPU Energy"}
StartsWithAne == {"ANE", "ANE0"}
StartsWithDram == {"DRAM"}
StartsWithGpuSram == {"GPU SRAM"}

\* match channel.channel.as_str(): the field the watts are added to
Bucket(channel) ==
    CASE channel = "GPU Energy" -> "gpu_power"
      [] channel \in EndsWithCpuEnergy -> "cpu_power"
      [] channel \in StartsWithAne -> "ane_power"
      [] channel \in StartsWithDram -> "ram_power"
      [] channel \in StartsWithGpuSram -> "gpu_ram_power"
      [] OTHER -> "none"

PowerFields == {"cpu_power", "gpu_power", "ane_power", "ram_power", "gpu_ram_power"}

\* PowerMetrics::default()
PowerDefault == [f \in PowerFields |-> F32(0)]

\* the loop `for channel in sample` over the channels from index i on
RECURSIVE PowerLoop(_, _, _, _)
PowerLoop(channels, i, duration_ms, metrics) ==
    IF i > Len(channels)
    THEN metrics
    ELSE LET channel == channels[i]
             power_result == energy_to_watts(channel.raw, channel.unit, duration_ms)
             field == Bucket(channel.channel)
         IN  PowerLoop(channels, i + 1, duration_ms,
                IF channel.group = "Energy Model" /\ power_result.kind = "Ok"
                        /\ field \in PowerFields
                THEN [metrics EXCEPT ![field] = F32Add(@, power_result.val)]
                ELSE metrics)

\* the finished record, every field as <<m, e>> for m * 2^e
PowerRecord(metrics, smc_sys_power) ==
    LET all_power == F32Add(F32Add(metrics.cpu_power, metrics.gpu_power),
                            metrics.ane_power)
    IN  [cpu_power     |-> F32Value(metrics.cpu_power),
         gpu_power     |-> F32Value(metrics.gpu_power),
         ane_power     |-> F32Value(metrics.ane_power),
         ram_power     |-> F32Value(metrics.ram_power),
         gpu_ram_power |-> F32Value(metrics.gpu_ram_power),
         all_power     |-> F32Value(all_power),
         sys_power     |-> IF smc_sys_power.kind = "Some"
                           THEN smc_sys_power.val ELSE F32Value(all_power)]

\* metrics::iokit::get_power_metrics_from_sample, given the channels of the
\* delta sample and the elapsed time sample_power measured
get_power_metrics_from_sample(channels, actual_duration_ms) ==
    Ok(PowerRecord(PowerLoop(channels, 1, actual_duration_ms, PowerDefault), None))

\* iokit::get_power_metrics once the subscription exists, given the channels
\* of the delta sample
get_power_metrics(smc_sys_power, channels) ==
    Ok(PowerRecord(PowerLoop(channels, 1, 1000, PowerDefault), smc_sys_power))

\* the channels of a delta sample
Channel(group, channel, unit, raw) ==
    [group |-> group, channel |-> channel, unit |-> unit, raw |-> raw]

Channels ==
    { Channel("Energy Model", "CPU Energy", "mJ", 2500),
      Channel("Energy Model", "DIE_0_CPU Energy", UnitMicroBytes, 3000000),
      Channel("Energy Model", "GPU Energy", "uJ", 5000000),
      Channel("Energy Model", "ANE0", "nJ", 2000000000),
      Channel("Energy Model", "DRAM", "J", 7),
      Channel("CPU Stats", "CPU Energy", "mJ", 900) }

DeltaSamples == UNION { [1..n -> Channels] : n \in 0..MaxChannels }

\* the collectors: the dashboard thread, the JSON sampler, a caller of
\* iokit::get_power_metrics
Callers == {"dashboard", "json", "get_power_metrics"}

\* the interval each caller asks for, in ms
Requested(caller) == IF caller = "json" THEN {500, 1000} ELSE {1000}

\* what thread::sleep(requested) and the second snapshot can take, in ms
Elapsed(requested) == {requested, requested + 3}

InCycle(phase) ==
    /\ component = "power_loop"
    /\ loop.caller # "none"
    /\ loop.phase = phase
    /\ loop.cycles < MaxCycles

LoopStep ==
    UNCHANGED <<lifeVars, smcVars, calc, rec, dash>>

\* IOReport::new(vec![("Energy Model", None)]) fails before the subscription
\* is asked for: the `?` returns the error and the collector's .ok() drops it
IOReport_new_no_channels ==
    /\ InCycle("idle")
    /\ loop' = [loop EXCEPT !.result = Err("Failed to get IOReport channels"),
                            !.cycles = @ + 1]
    /\ LoopStep

\* IOReportCreateSubscription returns null
IOReport_new_null_subscription ==
    /\ InCycle("idle")
    /\ loop' = [loop EXCEPT !.created = @ + 1,
                            !.result = Err("Failed to create IOReport subscription"),
                            !.cycles = @ + 1]
    /\ LoopStep

\* IOReport::new returns Ok(Self { subscription, channels })
IOReport_new_ok ==
    /\ InCycle("idle")
    /\ loop' = [loop EXCEPT !.created = @ + 1, !.alive = @ + 1,
                            !.most_alive = IF loop.alive + 1 > @ THEN loop.alive + 1 ELSE @,
                            !.phase = "subscribed",
                            !.elapsed_ms = 0, !.channels = <<>>, !.result = Err("none")]
    /\ LoopStep

\* the sample and its conversion: sample_power sleeps and measures, the loop
\* over the channels fills the record
Power_sample ==
    /\ InCycle("subscribed")
    /\ \E elapsed_ms \in Elapsed(loop.requested), channels \in DeltaSamples :
        loop' = [loop EXCEPT
                    !.phase = "sampled",
                    !.elapsed_ms = elapsed_ms,
                    !.channels = channels,
                    !.result = IF loop.caller = "get_power_metrics"
                               THEN get_power_metrics(None, channels)
                               ELSE get_power_metrics_from_sample(channels, elapsed_ms)]
    /\ LoopStep

\* the function returns: `ioreport` goes out of scope, Drop releases the
\* channels and the subscription
Power_return ==
    /\ InCycle("sampled")
    /\ loop' = [loop EXCEPT !.alive = @ - 1, !.phase = "idle", !.cycles = @ + 1]
    /\ LoopStep

InitPower ==
    /\ component = "power_loop"
    /\ pc = "start"
    /\ native = NativeInit
    /\ calls = [p \in Primitives |-> 0]
    /\ trace = <<>>
    /\ samples = 0
    /\ staleUse = FALSE
    /\ grp = 0
    /\ services = <<>>
    /\ key_cache = NoCache
    /\ infoOk = NoCache
    /\ wire = <<>>
    /\ last = NoOp
    /\ agg = NoAgg
    /\ calc = NoCalc
    /\ rec = NoRec
    /\ dash = NoDash
    /\ \E caller \in Callers :
        \E requested \in Requested(caller) :
            loop = [caller |-> caller, requested |-> requested, phase |-> "idle",
                    cycles |-> 0, created |-> 0, alive |-> 0, most_alive |-> 0,
                    elapsed_ms |-> 0, channels |-> <<>>, result |-> Err("none")]

NextPower ==
    \/ IOReport_new_no_channels
    \/ IOReport_new_null_subscription
    \/ IOReport_new_ok
    \/ Power_sample
    \/ Power_return

SpecPower == InitPower /\ [][NextPower]_vars

\* ---------------------------------------------------------------------------
\* The metrics records: collect_metrics_internal, get_comprehensive_metrics,
\* get_temperature_metrics. One source is read per step; a source stands for
\* all the reads behind one field of the record.
\* ---------------------------------------------------------------------------

RecordFns ==
    {"collect_metrics_internal", "get_comprehensive_metrics", "get_temperature_metrics"}

\* the sources of a record, in the order the code reads them
Sources(fn) ==
    CASE fn = "collect_metrics_internal" -> <<"memory", "cpu", "power", "perf">>
      [] fn = "get_comprehensive_metrics" ->
            <<"cpu_temp", "gpu_temp", "sensors", "power", "fans", "battery",
              "voltage", "current">>
      [] fn = "get_temperature_metrics" -> <<"Smc::new", "cpu_temp", "gpu_temp", "sensors">>

\* the fields of the record a source fills
FieldsOf(fn, source) ==
    CASE source = "perf" -> {"ecpu_usage", "pcpu_usage", "gpu_usage"}
      [] source = "Smc::new" -> {}
      [] OTHER -> {source}

RecordFields(fn) ==
    UNION {FieldsOf(fn, Sources(fn)[i]) : i \in 1..Len(Sources(fn))}

\* how the read of a source can end. "ok": it returned its value; "err": it
\* returned an error, or no key of it could be read; "abort": the thread does
\* not come back from it, which happens in a controller read when the key's
\* data_size is above 32 (output.bytes[0..data_size] in read_key_data) and in
\* IOReportPerf::get_sample when a snapshot is null (CFRelease(NULL)).
Outcomes(fn, source) ==
    IF fn = "collect_metrics_internal" /\ source \in {"memory", "cpu", "power"}
    THEN {"ok", "err"}
    ELSE IF source = "Smc::new"
    THEN {"ok", "err"}
    ELSE {"ok", "err", "abort"}

\* `?` on the source: its error is the error of the whole call
Propagates(fn, source) ==
    fn = "collect_metrics_internal" /\ source \in {"memory", "cpu"}

\* the record under construction after the read of `source` ended in `outcome`
AfterSource(r, source, outcome) ==
    IF outcome = "abort"
    THEN [r EXCEPT !.todo = <<>>, !.failed = @ \cup {source}, !.ret = "aborted"]
    ELSE IF outcome = "err" /\ Propagates(r.fn, source)
    THEN [r EXCEPT !.todo = <<>>, !.failed = @ \cup {source}, !.ret = "Err"]
    ELSE IF outcome = "err" /\ source = "Smc::new"
    THEN [r EXCEPT !.todo = <<>>, !.failed = @ \cup {source}, !.ret = "Ok"]
    ELSE IF outcome = "err"
    THEN [r EXCEPT !.todo = Tail(@), !.failed = @ \cup {source}]
    ELSE [r EXCEPT !.todo = Tail(@),
                   !.fields = [f \in DOMAIN @ |->
                                 IF f \in FieldsOf(r.fn, source) THEN "present" ELSE @[f]]]

InRecord ==
    /\ component = "record"
    /\ rec.fn # "none"
    /\ rec.ret = "none"

RecordStep ==
    UNCHANGED <<lifeVars, smcVars, calc, loop, dash>>

\* the next source of the record is read
Record_read ==
    /\ InRecord
    /\ rec.todo # <<>>
    /\ \E outcome \in Outcomes(rec.fn, Head(rec.todo)) :
          rec' = AfterSource(rec, Head(rec.todo), outcome)
    /\ RecordStep

\* Ok(SystemMetrics { .. }), ComprehensiveSMCMetrics { .. },
\* Ok(TemperatureMetrics { .. })
Record_return ==
    /\ InRecord
    /\ rec.todo = <<>>
    /\ rec' = [rec EXCEPT !.ret = "Ok"]
    /\ RecordStep

InitRecord ==
    /\ component = "record"
    /\ pc = "start"
    /\ native = NativeInit
    /\ calls = [p \in Primitives |-> 0]
    /\ trace = <<>>
    /\ samples = 0
    /\ staleUse = FALSE
    /\ grp = 0
    /\ services = <<>>
    /\ key_cache = NoCache
    /\ infoOk = NoCache
    /\ wire = <<>>
    /\ last = NoOp
    /\ agg = NoAgg
    /\ calc = NoCalc
    /\ loop = NoLoop
    /\ dash = NoDash
    /\ \E fn \in RecordFns :
          rec = [fn |-> fn, todo |-> Sources(fn), failed |-> {},
                 fields |-> [f \in RecordFields(fn) |-> "absent"], ret |-> "none"]

NextRecord ==
    \/ Record_read
    \/ Record_return

SpecRecord == InitRecord /\ [][NextRecord]_vars

\* ---------------------------------------------------------------------------
\* The histories of the dashboard
\* ---------------------------------------------------------------------------

MAX_HISTORY == 128

PowerHistories ==
    {"cpu_power_history", "gpu_power_history", "ane_power_history",
     "total_power_history"}

PerformanceHistories ==
    {"ecpu_freq_history", "pcpu_freq_history", "gpu_freq_history",
     "ecpu_usage_history", "pcpu_usage_history", "gpu_usage_history",
     "cpu_usage_history"}

Histories == {"memory_history"} \cup PowerHistories \cup PerformanceHistories

\* DashboardState::new()
DashboardState_new ==
    [h \in Histories |-> <<>>]
        @@ [current_memory |-> None, current_power |-> None,
            current_performance |-> None]

F32Mul(x, y) == Round(NMul(x.m, y.m), x.e + y.e, 24)

\* (x * 1000.0) as u64 and (x * 100.0) as u64 of an f32 that is not negative
Times(v, by) == F64AsU32(F32Mul(F32Of(v), F32(by)))

\* ((e + p) / 2.0 * 100.0) as u64
Combined(e, p) ==
    F64AsU32(F32Mul(F32Div(F32Add(F32Of(e), F32Of(p)), F32(2)), F32(100)))

\* history.push_front(value)
PushFront(history, value) == <<value>> \o history

\* Variant: nothing is taken from the back.
PopBackNone(history) == history

\* history.pop_back()
PopBack(history) ==
    IF history = <<>> THEN history ELSE SubSeq(history, 1, Len(history) - 1)

\* the values an update pushes, by history
PowerValues(power) ==
    [cpu_power_history |-> Times(power.cpu_power, 1000),
     gpu_power_history |-> Times(power.gpu_power, 1000),
     ane_power_history |-> Times(power.ane_power, 1000),
     total_power_history |-> Times(power.all_power, 1000)]

PerformanceValues(perf) ==
    [ecpu_freq_history |-> perf.ecpu_usage[1],
     pcpu_freq_history |-> perf.pcpu_usage[1],
     gpu_freq_history |-> perf.gpu_usage[1],
     ecpu_usage_history |-> Times(perf.ecpu_usage[2], 100),
     pcpu_usage_history |-> Times(perf.pcpu_usage[2], 100),
     gpu_usage_history |-> Times(perf.gpu_usage[2], 100),
     cpu_usage_history |-> Combined(perf.ecpu_usage[2], perf.pcpu_usage[2])]

\* the histories of a group after each took its value at the front, and lost
\* its last entry when the history named by `first` is longer than MAX_HISTORY
PushGroup(self, group, first, values) ==
    LET pushed == [h \in DOMAIN self |->
                     IF h \in group THEN PushFront(self[h], values[h]) ELSE self[h]]
    IN  IF Len(pushed[first]) > MAX_HISTORY
        THEN [h \in DOMAIN self |->
                IF h \in group THEN PopBack(pushed[h]) ELSE pushed[h]]
        ELSE pushed

\* fn update(&mut self, data: MetricData)
DashboardState_update(self, data) ==
    LET current == [self EXCEPT !.current_memory = Some(data.memory),
                                !.current_power = data.power,
                                !.current_performance = data.performance]
        memory == PushGroup(current, {"memory_history"}, "memory_history",
                            [memory_history |-> data.memory.ram_usage])
        power == IF data.power = None
                 THEN memory
                 ELSE PushGroup(memory, PowerHistories, "cpu_power_history",
                                PowerValues(data.power.val))
    IN  IF data.performance = None
        THEN power
        ELSE PushGroup(power, PerformanceHistories, "ecpu_freq_history",
                       PerformanceValues(data.performance.val))

\* the metrics an update may bring: two memory readings, no power or one of
\* two readings (1.5, 0.25, 0, 1.75 W and 0.1, 0, 0, 0.1 W), no performance
\* sample or one of two
MetricDatas ==
    { [memory |-> [ram_usage |-> m], power |-> pw, performance |-> pf] :
        m \in {1, 2},
        pw \in Optional({ [cpu_power |-> <<3, -1>>, gpu_power |-> <<1, -2>>,
                           ane_power |-> <<0, 0>>, all_power |-> <<7, -2>>],
                          [cpu_power |-> <<13421773, -27>>, gpu_power |-> <<0, 0>>,
                           ane_power |-> <<0, 0>>, all_power |-> <<13421773, -27>>] }),
        pf \in Optional({ [ecpu_usage |-> <<972, <<1, -1>>>>,
                           pcpu_usage |-> <<1666, <<5, -3>>>>,
                           gpu_usage |-> <<0, <<0, 0>>>>],
                          [ecpu_usage |-> <<600, <<1, -2>>>>,
                           pcpu_usage |-> <<0, <<0, 0>>>>,
                           gpu_usage |-> <<707, <<3, -2>>>>] }) }

\* a dashboard that has taken n updates of which p brought power metrics and
\* q a performance sample, every reading being zero
Idle(n, p, q) ==
    [h \in Histories |->
        [i \in 1..(IF h \in PowerHistories THEN p
                   ELSE IF h \in PerformanceHistories THEN q ELSE n) |-> 0]]
        @@ [current_memory |-> None, current_power |-> None,
            current_performance |-> None]

\* MetricEvent::Update(data) => self.state.update(data)
Update ==
    /\ component = "dashboard"
    /\ dash.updates < MaxUpdates
    /\ \E data \in MetricDatas :
        dash' = [state |-> DashboardState_update(dash.state, data),
                 updates |-> dash.updates + 1]
    /\ UNCHANGED <<lifeVars, smcVars, calc, loop, rec>>

\* a new dashboard, or one whose histories are one entry short of MAX_HISTORY
InitDash ==
    /\ component = "dashboard"
    /\ pc = "start"
    /\ native = NativeInit
    /\ calls = [p \in Primitives |-> 0]
    /\ trace = <<>>
    /\ samples = 0
    /\ staleUse = FALSE
    /\ grp = 0
    /\ services = <<>>
    /\ key_cache = NoCache
    /\ infoOk = NoCache
    /\ wire = <<>>
    /\ last = NoOp
    /\ agg = NoAgg
    /\ calc = NoCalc
    /\ loop = NoLoop
    /\ rec = NoRec
    /\ \E n \in {0, MAX_HISTORY - 1} :
        \E p \in {0, n}, q \in {0, n} :
            dash = [state |-> IF n = 0 THEN DashboardState_new ELSE Idle(n, p, q),
                    updates |-> 0]

NextDash == Update

SpecDash == InitDash /\ [][NextDash]_vars

\* ---------------------------------------------------------------------------
\* Specification of the resource lifecycles
\* ---------------------------------------------------------------------------

Init ==
    /\ component \in {"perf", "power", "smc"}
    /\ pc = "start"
    /\ native = NativeInit
    /\ calls = [p \in Primitives |-> 0]
    /\ trace = <<>>
    /\ samples = 0
    /\ staleUse = FALSE
    /\ grp = 0
    /\ services = <<>>
    /\ key_cache = NoCache
    /\ infoOk = NoCache
    /\ wire = <<>>
    /\ last = NoOp
    /\ agg = NoAgg
    /\ calc = NoCalc
    /\ rec = NoRec
    /\ dash = NoDash
    /\ loop = NoLoop

Next ==
    \/ create_channels_copy
    \/ create_channels_merge
    \/ create_channels_verify
    \/ create_subscription
    \/ get_sample_first
    \/ get_sample_sleep
    \/ get_sample_second
    \/ get_sample_delta
    \/ get_sample_release
    \/ get_sample_parse
    \/ sample_power_iterator
    \/ IOReportIterator_drop
    \/ IOReport_drop
    \/ IOServiceIterator_new
    \/ Smc_new_next
    \/ Smc_drop

Spec == Init /\ [][Next]_vars

\* ---------------------------------------------------------------------------
\* Properties of the resource lifecycles
\* ---------------------------------------------------------------------------

SnapshotHandles == {"sample1", "sample2", "delta"}

\* C1: an instance that was constructed successfully and then dropped with no
\* operation in between has released each handle it owns exactly once: the
\* sampler its subscription and its channel dictionary, the SMC client its
\* connection; nothing was released twice and none of them is still live.
C1_ConstructThenDrop ==
    (pc = "closed" /\ samples = 0) =>
        /\ native.over = {}
        /\ IF IsSampler
           THEN \A h \in {"subs", "chan"} :
                   /\ native.allocs[h] = 1
                   /\ native.releases[h] = 1
                   /\ h \notin native.live
           ELSE /\ native.allocs["connection"] = 1
                /\ native.releases["connection"] = 1
                /\ "connection" \notin native.live

C1_Witness ==
    /\ pc = "closed"
    /\ samples = 0
    /\ component = "perf"
    /\ native.releases["subs"] = 1
    /\ native.releases["chan"] = 1

\* C2: when sampler construction returns an error (no "IOReportChannels" entry,
\* or a null subscription), every native object allocated so far - the per-group
\* dictionaries and the merged mutable copy - has been released exactly once.
C2_FailedNewReleasesAll ==
    (IsSampler /\ pc = "failed") =>
        /\ native.over = {}
        /\ \A h \in {"group1", "group2", "chan"} :
              /\ native.releases[h] = native.allocs[h]
              /\ h \notin native.live

\* C3: over any number n >= 1 of get_sample calls on one IOReportPerf, the
\* create-subscription primitive and the channel-set construction have each
\* been invoked exactly once (by the constructor).
C3_SubscribeOnce ==
    (component = "perf" /\ samples >= 1) =>
        /\ calls["IOReportCreateSubscription"] = 1
        /\ calls["CFDictionaryCreateMutableCopy"] = 1
        /\ calls["IOReportCopyChannelsInGroup"] = 2
        /\ native.allocs["subs"] = 1
        /\ native.allocs["chan"] = 1

C3_Witness ==
    /\ component = "perf"
    /\ samples = 2
    /\ calls["IOReportCreateSamples"] = 4

\* C4: a completed sample call has performed snapshot A, sleep, snapshot B,
\* delta, release A, release B and one release of the delta, in this order, and
\* after any number of completed calls no snapshot or delta handle is live and
\* each was released exactly as often as it was created.
C4_SampleOrderAndRelease ==
    (IsSampler /\ pc \in {"subscribed", "closed"} /\ samples >= 1) =>
        /\ trace = <<"sample1", "sleep", "sample2", "delta",
                     "release1", "release2", "release_delta">>
        /\ native.over = {}
        /\ \A h \in SnapshotHandles :
              /\ h \notin native.live
              /\ native.allocs[h] = samples
              /\ native.releases[h] = samples

C4_Witness ==
    /\ component = "power"
    /\ pc = "subscribed"
    /\ samples = 2
    /\ native.releases["delta"] = 2

\* C5: every snapshot request is issued while the sampler still holds its
\* subscription and channel set; a closed sampler holds neither and is never
\* sampled.
C5_NoSampleAfterClose ==
    /\ ~staleUse
    /\ (IsSampler /\ calls["IOReportCreateSamples"] > 2 * samples) =>
          {"subs", "chan"} \subseteq native.live \/ pc = "crashed" \/ pc = "panicked"
    /\ (IsSampler /\ pc = "closed") =>
          /\ "subs" \notin native.live
          /\ "chan" \notin native.live

C5_Witness ==
    /\ IsSampler
    /\ pc = "closed"
    /\ samples >= 1
    /\ calls["IOReportCreateSamples"] = 2 * samples

\* ---------------------------------------------------------------------------
\* Smc reads (SpecSmc, SpecDecode)
\* ---------------------------------------------------------------------------

\* The big-endian 32-bit number of a 4-character key.
BigEndian32(key) == ((key[1] * 256 + key[2]) * 256 + key[3]) * 256 + key[4]

\* C6: over any sequence of reads on one connection the controller answers at
\* most one read-key-info request per key, the cache is indexed by the
\* big-endian 32-bit number of the 4 key characters, and a read (read_value,
\* read_le, read_key_info) of a key whose metadata is cached sends no
\* read-key-info request.
C6_KeyInfoCachedOnce ==
    /\ [](/\ \A k \in DOMAIN infoOk : infoOk[k] <= 1
          /\ DOMAIN key_cache \subseteq {BigEndian32(k) : k \in {KeyTC0P, KeyF0Ac}}
          /\ DOMAIN key_cache = DOMAIN infoOk)
    /\ [][\A k \in {KeyTC0P, KeyF0Ac} :
             (BigEndian32(k) \in DOMAIN key_cache /\ last'.op # "none" /\ last'.key = k)
                => \A i \in 1..Len(wire') : wire'[i].cmd # SMC_CMD_READ_KEYINFO]_vars

\* A second read of "TC0P" that succeeded with the read-bytes request only.
C6_Witness ==
    /\ last.op = "read_value"
    /\ last.key = KeyTC0P
    /\ last.res.kind = "Ok"
    /\ infoOk[BigEndian32(KeyTC0P)] = 1
    /\ Len(wire) = 1
    /\ wire[1].cmd = SMC_CMD_READ_BYTES

\* C7: when the controller answers the read-bytes request of a key whose
\* metadata reports size s, the key value read returns exactly the first s
\* bytes of the reply, for every s (also s > 32).
C7_ReadReturnsSizeBytes ==
    (last.op = "read_value" /\ last.dr_ok) =>
        /\ last.data.kind = "Ok"
        /\ Len(last.data.val) = last.info.val.data_size
        /\ \A i \in 1..Len(last.data.val) : last.data.val[i] = last.bytes[i]

EnumeratedTags ==
    {"flt ", "ui8 ", "ui16", "ui32", "si8 ", "si16", "flag", "ch8*",
     "fp1f", "fp2e", "fp3d", "fp4c", "fp5b", "fp6a", "fp79", "fp88", "fpa6", "fpc4", "fpe2",
     "sp1e", "sp2d", "sp3c", "sp4b", "sp5a", "sp69", "sp78", "sp87", "sp96", "spb4", "spf0"}

\* read_value obtained the metadata and the payload of the key
Payload == last.op = "read_value" /\ last.info.kind = "Ok" /\ last.data.kind = "Ok"

IsRawBytes(res) ==
    /\ res.kind = "Ok"
    /\ res.val.t = "Bytes"
    /\ res.val.v = SubSeq(last.bytes, 1, last.info.val.data_size)

\* C9 as stated: every tag outside the enumerated families yields the raw
\* bytes, for every payload length.
C9_EveryOtherTagRaw ==
    (Payload /\ last.info.val.data_type \notin EnumeratedTags) => IsRawBytes(last.res)

\* C9 amended: every tag that is neither enumerated nor "{fds" yields the raw
\* bytes for every payload length; "{fds" yields the raw bytes for a payload
\* of at least 16 bytes and an error for a shorter one.
C9_UnknownTagsRaw ==
    (Payload /\ last.info.val.data_type \notin EnumeratedTags) =>
        IF last.info.val.data_type = "{fds" /\ last.info.val.data_size < 16
        THEN last.res.kind = "Err"
        ELSE IsRawBytes(last.res)

\* A 3-byte payload under the unknown tag "hex_" came back as it was.
C9_Witness ==
    /\ Payload
    /\ last.info.val.data_type = "hex_"
    /\ last.info.val.data_size = 3
    /\ last.res.kind = "Ok"
    /\ last.res.val.v = <<255, 254, 3>>

TwosComplement(raw, bits) == IF raw >= 2 ^ (bits - 1) THEN raw - 2 ^ bits ELSE raw

IsValue(res, t, v) == res.kind = "Ok" /\ res.val.t = t /\ res.val.v = v

\* C10: the integer tags decode big-endian at their width (ui8: b0, ui16:
\* 256*b0+b1, ui32: the 4 bytes, kept as its two 16-bit halves; si8/si16: the
\* two's complement of the same bytes; flag: b0 # 0), and a payload shorter
\* than the width is an error.
C10_IntegersBigEndian ==
    Payload =>
        LET tag == last.info.val.data_type
            n == last.info.val.data_size
            b == last.bytes
        IN  /\ tag = "ui8 " =>
                 IF n >= 1 THEN IsValue(last.res, "U8", b[1]) ELSE last.res.kind = "Err"
            /\ tag = "ui16" =>
                 IF n >= 2 THEN IsValue(last.res, "U16", 256 * b[1] + b[2])
                 ELSE last.res.kind = "Err"
            /\ tag = "ui32" =>
                 IF n >= 4
                 THEN IsValue(last.res, "U32", <<256 * b[1] + b[2], 256 * b[3] + b[4]>>)
                 ELSE last.res.kind = "Err"
            /\ tag = "si8 " =>
                 IF n >= 1 THEN IsValue(last.res, "I8", TwosComplement(b[1], 8))
                 ELSE last.res.kind = "Err"
            /\ tag = "si16" =>
                 IF n >= 2 THEN IsValue(last.res, "I16", TwosComplement(256 * b[1] + b[2], 16))
                 ELSE last.res.kind = "Err"
            /\ tag = "flag" =>
                 IF n >= 1 THEN IsValue(last.res, "Flag", b[1] # 0) ELSE last.res.kind = "Err"

\* "si16" with payload ff fe decoded to -2.
C10_Witness ==
    /\ Payload
    /\ last.info.val.data_type = "si16"
    /\ last.info.val.data_size = 2
    /\ last.res.kind = "Ok"
    /\ last.res.val.v = -2

\* ---------------------------------------------------------------------------
\* Smc aggregators (SpecAgg)
\* ---------------------------------------------------------------------------

ReadKeys(hows) == KeysOf(SelectSeq(agg.log, LAMBDA e : e.how \in hows))

OkKeys == KeysOf(SelectSeq(agg.log, LAMBDA e : e.ok))

ReadOk(key) == \E i \in 1..Len(agg.log) : agg.log[i].key = key /\ agg.log[i].ok

ReadFailed(key) == \E i \in 1..Len(agg.log) : agg.log[i].key = key /\ ~agg.log[i].ok

Logged == {agg.log[i].key : i \in 1..Len(agg.log)}

ListAggregators ==
    {"get_fan_metrics", "get_voltage_metrics", "get_current_metrics",
     "get_battery_metrics", "get_all_temperatures"}

\* the keys of fans i.. in call order: "F<i>Ac", then "F<i>Mn", "F<i>Mx",
\* "F<i>Tg" when `all` or when the "F<i>Ac" read succeeded
RECURSIVE FanKeysFrom(_, _)
FanKeysFrom(i, all) ==
    IF i >= MaxFans
    THEN <<>>
    ELSE (IF all \/ ReadOk(<<70, 48 + i, 65, 99>>)
          THEN <<<<70, 48 + i, 65, 99>>, <<70, 48 + i, 77, 110>>,
                 <<70, 48 + i, 77, 120>>, <<70, 48 + i, 84, 103>>>>
          ELSE <<<<70, 48 + i, 65, 99>>>>)
         \o FanKeysFrom(i + 1, all)

\* "B0CC" "B0FC" "B0AV" "B0AC" "TB0T" ["B0TE" when "TB0T" failed] "B0CT"
BatteryKeys ==
    <<KeyB0CC, KeyB0FC, KeyB0AV, KeyB0AC, KeyTB0T>>
    \o (IF ReadFailed(KeyTB0T) THEN <<KeyB0TE>> ELSE <<>>)
    \o <<KeyB0CT>>

\* the keys of the call, when every key is attempted whatever the others did
EveryKey ==
    CASE agg.fn = "get_fan_metrics" -> FanKeysFrom(0, TRUE)
      [] agg.fn = "get_battery_metrics" -> BatteryKeys
      [] OTHER -> KeysOf(Start(agg.fn).todo)

\* the keys of the call, a fan's detail keys only after its "Ac" key was read
Planned ==
    CASE agg.fn = "get_fan_metrics" -> FanKeysFrom(0, FALSE)
      [] agg.fn = "get_battery_metrics" -> BatteryKeys
      [] OTHER -> KeysOf(Start(agg.fn).todo)

\* C8 as stated: when an aggregate call in which a key read failed in a
\* request (transport error or controller status) has returned, it did not
\* fail and every key of the call was attempted.
C8_EveryKeyAttemptedNoFailure ==
    (agg.phase = "done" /\ \E j \in 1..Len(agg.log) : agg.log[j].io) =>
        /\ agg.ret.kind = "Ok"
        /\ agg.fn \in ListAggregators => ReadKeys({"float", "u16", "i16", "fan_ac",
                                                   "temp_first", "known"}) = EveryKey

\* C8 amended: a failed key read is logged and skipped and the call goes on
\* with its remaining keys (the reads made so far followed by the reads still
\* to make are the keys of the call), except that a fan's Mn/Mx/Tg keys are
\* read only after its Ac key was read successfully; the fields of the result
\* come from successful reads only; the fan, voltage, current, battery, power
\* and get_all_temperatures calls return Ok, and get_cpu_temperature /
\* get_gpu_temperature return an error exactly when no sensor read produced
\* an accepted value.
C8_FailingKeySkipped ==
    agg.phase \in {"run", "done"} =>
        /\ agg.fn \notin TemperatureFns =>
              /\ KeysOf(agg.log) \o KeysOf(agg.todo) = Planned
              /\ agg.phase = "done" => agg.ret.kind = "Ok"
        /\ agg.fn \in ListAggregators \ {"get_all_temperatures"} =>
              KeysOf(agg.fields) = OkKeys
        /\ agg.fn \in TemperatureFns =>
              /\ agg.stage \in {"average", "fields"} =>
                    /\ ReadKeys({"discover"}) = SelectSeq(agg.all_keys, IsTKey)
                    /\ ReadKeys({"average"}) \o KeysOf(agg.todo)
                          = IF agg.fn = "get_cpu_temperature"
                            THEN agg.cpu_sensors
                            ELSE agg.gpu_sensors
              /\ agg.phase = "done" => (agg.ret.kind = "Err" <=> agg.fields = <<>>)
        /\ \A i \in 1..Len(agg.fields) :
              \E j \in 1..Len(agg.log) :
                 /\ agg.log[j].key = agg.fields[i].key
                 /\ agg.log[j].ok
                 /\ agg.log[j].how \notin {"discover", "index", "num_keys"}

\* get_fan_metrics returned: "F0Ac" was read, "F0Mn" failed in a request and
\* is absent, "F0Mx" was still read and is in the result.
C8_Witness ==
    /\ agg.fn = "get_fan_metrics"
    /\ agg.phase = "done"
    /\ agg.ret.kind = "Ok"
    /\ \E j \in 1..Len(agg.log) :
          agg.log[j].key = <<70, 48, 77, 110>> /\ agg.log[j].io
    /\ \E i \in 1..Len(agg.fields) : agg.fields[i].key = <<70, 48, 77, 120>>
    /\ \A i \in 1..Len(agg.fields) : agg.fields[i].key # <<70, 48, 77, 110>>

BatteryLeKeys == {KeyB0CT, KeyB0AC, KeyB0AV, KeyB0CC, KeyB0FC}

\* the field the battery record gets from little-endian value x of `key`
BatteryField(key, x) ==
    CASE key = KeyB0CT -> x
      [] key \in {KeyB0AC, KeyB0AV} -> <<"ratio", x, 1000>>
      [] OTHER -> <<"ratio", x, 1>>

\* C11: in get_battery_metrics every read of B0CT, B0AC, B0AV, B0CC, B0FC goes
\* through read_le, never through the tag-driven decode; when the payload was
\* read, a payload of at least 2 bytes gives b0 + 256*b1 (two's complement for
\* B0AC) whatever the type tag, put into the key's field, and a shorter one
\* gives an error and no field.
C11_BatteryLittleEndian ==
    (agg.fn = "get_battery_metrics" /\ agg.phase \in {"run", "done"}) =>
        /\ \A j \in 1..Len(agg.log) :
              agg.log[j].key \in BatteryLeKeys =>
                 agg.log[j].how = (IF agg.log[j].key = KeyB0AC THEN "i16" ELSE "u16")
        /\ (agg.ret = NoOp /\ last.op # "none" /\ last.key \in BatteryLeKeys
               /\ last.data # NoOp /\ last.data.kind = "Ok") =>
              LET b == last.bytes
                  raw == b[1] + 256 * b[2]
                  x == IF last.key = KeyB0AC /\ raw >= 32768 THEN raw - 65536 ELSE raw
              IN  IF last.info.val.data_size >= 2
                  THEN /\ last.res = Ok(x)
                       /\ agg.fields # <<>>
                       /\ agg.fields[Len(agg.fields)].key = last.key
                       /\ agg.fields[Len(agg.fields)].v = BatteryField(last.key, x)
                  ELSE /\ last.res.kind = "Err"
                       /\ \A i \in 1..Len(agg.fields) : agg.fields[i].key # last.key

\* B0AC with payload 1e ff under tag "ui16" was read as -226 mA.
C11_Witness ==
    /\ agg.fn = "get_battery_metrics"
    /\ last.op = "i16"
    /\ last.key = KeyB0AC
    /\ last.info.kind = "Ok"
    /\ last.info.val.data_type = "ui16"
    /\ last.res = Ok(-226)

\* v (a quotient num / den) lies in the open interval (-50, 150)
InSanityInterval(v) == v[2] > (-50) * v[3] /\ v[2] < 150 * v[3]

\* C12: when get_cpu_temperature / get_gpu_temperature reads one of its
\* sensors and the value decodes, the value enters the mean exactly when it
\* lies in the open interval (-50, 150).
C12_MeanOverSanityInterval ==
    [][(/\ agg.fn \in TemperatureFns
        /\ agg.phase = "run"
        /\ agg.todo # <<>>
        /\ Head(agg.todo).how = "average"
        /\ agg'.phase # "panicked"
        /\ last'.res.kind = "Ok")
          => IF InSanityInterval(last'.res.val)
             THEN agg'.fields = Append(agg.fields, [at  |-> "temps",
                                                    key |-> Head(agg.todo).key,
                                                    v   |-> last'.res.val])
             ELSE agg'.fields = agg.fields]_vars

\* ---------------------------------------------------------------------------
\* Properties of the frequency tables
\* ---------------------------------------------------------------------------

\* the blob a parser call was given, as bytes (None: no blob)
BlobOf(c) ==
    IF c.op = "parse_dvfs_mhz" THEN c.input
    ELSE IF c.op = "parse_voltage_states"
    THEN HexDecode(SelectSeq(c.input.hex_str, IsNoSpace))
    ELSE None

\* the leading 4 bytes of the i-th 8-byte record of a blob
Leading(bytes, i) == SubSeq(bytes, 8 * (i - 1) + 1, 8 * (i - 1) + 4)

AllLeadingZero(bytes) ==
    \A i \in 1..(Len(bytes) \div 8) : Leading(bytes, i) = <<0, 0, 0, 0>>

\* C13: the frequency-table parser returns "no data" for every blob whose
\* length is not a multiple of 8 and for every blob in which all leading
\* 4-byte values are zero.
C13_NoDataForBadBlob ==
    (calc.op \in {"parse_dvfs_mhz", "parse_voltage_states"} /\ BlobOf(calc).kind = "Some")
        => ((Len(BlobOf(calc).val) % 8 # 0 \/ AllLeadingZero(BlobOf(calc).val))
                => calc.result = None)

\* the little-endian u32 in the leading 4 bytes of the i-th record, as halves
LeadingU32(bytes, i) ==
    LET l == Leading(bytes, i) IN <<l[3] + 256 * l[4], l[1] + 256 * l[2]>>

\* the non-zero leading values of the whole records of a blob, in blob order
RawLadder(bytes) ==
    SelectSeq([i \in 1..(Len(bytes) \div 8) |-> LeadingU32(bytes, i)],
              LAMBDA x : x # <<0, 0>>)

\* the result of a parser call as halves (parse_voltage_states gives plain
\* numbers)
AsHalves(c) ==
    IF c.result.kind = "None" \/ c.op = "parse_dvfs_mhz"
    THEN c.result
    ELSE Some([i \in 1..Len(c.result.val) |->
                 <<c.result.val[i] \div 65536, c.result.val[i] % 65536>>])

OrNone(seq) == IF seq = <<>> THEN None ELSE Some(seq)

\* the members of a finite set of numbers in ascending order
Ascending(S) ==
    CHOOSE seq \in [1..Cardinality(S) -> S] :
        \A i, j \in 1..Cardinality(S) : i < j => seq[i] < seq[j]

\* C14 (as stated): the result of parsing a blob is the sequence of the
\* non-zero little-endian u32 values read from the first 4 bytes of each
\* 8-byte record, in blob order, and it is non-empty only if at least one
\* record has a non-zero leading 4 bytes.
C14_RawValuesInBlobOrder ==
    (calc.op \in {"parse_dvfs_mhz", "parse_voltage_states"}
        /\ BlobOf(calc).kind = "Some" /\ Len(BlobOf(calc).val) % 8 = 0)
        => /\ AsHalves(calc) = OrNone(RawLadder(BlobOf(calc).val))
           /\ calc.result.kind = "Some" => ~AllLeadingZero(BlobOf(calc).val)

\* C14 (amended): parse_dvfs_mhz returns the non-zero little-endian u32
\* leading values of the whole 8-byte records in blob order; parse_voltage_states
\* returns, for a blob whose length is a multiple of 8, the distinct positive
\* values raw / scale in ascending order, and "no data" for any other length;
\* either result is non-empty only if some record has a non-zero leading value.
C14_LadderOfRecords ==
    /\ (calc.op = "parse_dvfs_mhz" /\ calc.input.kind = "Some")
        => calc.result = OrNone(RawLadder(calc.input.val))
    /\ (calc.op = "parse_voltage_states" /\ BlobOf(calc).kind = "Some")
        => LET bytes == BlobOf(calc).val
               mhz == { U32Div(LeadingU32(bytes, i), calc.input.scale) :
                            i \in 1..(Len(bytes) \div 8) } \ {0}
           IN  IF Len(bytes) % 8 # 0
               THEN calc.result = None
               ELSE calc.result = OrNone(Ascending(mhz))
    /\ (calc.op \in {"parse_dvfs_mhz", "parse_voltage_states"}
            /\ BlobOf(calc).kind = "Some" /\ calc.result.kind = "Some")
        => ~AllLeadingZero(BlobOf(calc).val)

\* a table given out of order and with a repeat comes back sorted
C14_Witness ==
    /\ calc.op = "parse_voltage_states"
    /\ calc.input.scale = 1000 * 1000
    /\ BlobOf(calc).kind = "Some"
    /\ RawLadder(BlobOf(calc).val) = <<<<53405, 49920>>, <<9155, 17920>>>>
    /\ calc.result = Some(<<600, 3500>>)

\* the raw ladder stored under a key of the pmgr properties
RawLadderOf(data) == IF data.kind = "None" THEN <<>> ELSE RawLadder(data.val)

Divided(raw, scale) == OrNone([i \in 1..Len(raw) |-> U32Div(raw[i], scale)])

\* 10_000 and 100_000_000 = 1525 * 2^16 + 57600 against a value kept as halves
Below10000(x) == x[1] = 0 /\ x[2] < 10000
Above100000000(x) == x[1] > 1525 \/ (x[1] = 1525 /\ x[2] > 57600)

\* C15 (as stated): a CPU ladder whose raw values are all < 10,000 is divided
\* by 1,000; a ladder whose raw values are all > 100,000,000, and every mixed
\* or ambiguous ladder, is divided by 1,000,000.
C15_ScaleByBandOfAllValues ==
    (calc.op = "get_cpu_frequencies" /\ calc.input.pmgr)
        => LET band(raw) == IF \A i \in 1..Len(raw) : Below10000(raw[i])
                            THEN 1000 ELSE 1000000
               e == RawLadderOf(calc.input.vs1)
               p == RawLadderOf(calc.input.vs5)
           IN  /\ calc.result.ecpu_freqs = Divided(e, band(e))
               /\ calc.result.pcpu_freqs = Divided(p, band(p))

\* C15 (amended): one scale is chosen for both CPU ladders from a single raw
\* value, the first non-zero value of the efficiency ladder or, when that
\* ladder has none, of the performance ladder: 1,000 when that value is
\* < 10,000 and 1,000,000 otherwise (above 100,000,000, in between, or no
\* value at all); every entry of both ladders is raw / scale.
C15_ScaleByFirstValue ==
    (calc.op = "get_cpu_frequencies" /\ calc.input.pmgr)
        => LET e == RawLadderOf(calc.input.vs1)
               p == RawLadderOf(calc.input.vs5)
               sample == IF e # <<>> THEN e ELSE p
               scale == IF sample # <<>> /\ Below10000(sample[1])
                        THEN 1000 ELSE 1000000
           IN  /\ calc.result.ecpu_freqs = Divided(e, scale)
               /\ calc.result.pcpu_freqs = Divided(p, scale)

\* a mixed efficiency ladder (5,000 then 600,000,000) is divided by 1,000,
\* and so is the performance ladder read with it
C15_Witness ==
    /\ calc.op = "get_cpu_frequencies"
    /\ calc.input.pmgr
    /\ RawLadderOf(calc.input.vs1) = <<<<0, 5000>>, <<9155, 17920>>>>
    /\ RawLadderOf(calc.input.vs5) = <<<<9155, 17920>>>>
    /\ calc.result.ecpu_freqs = Some(<<5, 600000>>)
    /\ calc.result.pcpu_freqs = Some(<<600000>>)

\* ---------------------------------------------------------------------------
\* Properties of the residency-weighted frequency
\* ---------------------------------------------------------------------------

\* the index (from 1) of the first state not named IDLE, DOWN or OFF, 0 if none
FirstActive(items) ==
    IF \A i \in 1..Len(items) : items[i][1] \in {"IDLE", "DOWN", "OFF"}
    THEN 0
    ELSE CHOOSE i \in 1..Len(items) :
            /\ items[i][1] \notin {"IDLE", "DOWN", "OFF"}
            /\ \A j \in 1..(i - 1) : items[j][1] \in {"IDLE", "DOWN", "OFF"}

RECURSIVE TicksFrom(_, _)
TicksFrom(items, i) ==
    IF i > Len(items) THEN 0 ELSE items[i][2] + TicksFrom(items, i + 1)

\* sum over the ladder indices of ticks[i + offset] * ladder[i]
RECURSIVE TickMhz(_, _, _, _)
TickMhz(items, ladder, first, i) ==
    IF i > Len(ladder) \/ first + i - 1 > Len(items)
    THEN 0
    ELSE items[first + i - 1][2] * ladder[i] + TickMhz(items, ladder, first, i + 1)

\* C16: for a channel with active > 0 and a non-empty ladder the reported
\* frequency is the floor of the sum over ladder indices i of
\* ticks[i + offset] * ladder[i] / active, with offset the index of the first
\* state not named IDLE, DOWN or OFF; for the states (IDLE,100), (P1,300),
\* (P2,600) and the ladder [1000, 2000] the result is 1666 and 0.75.
C16_TruncatedWeightedMean ==
    calc.op = "calc_freq"
        => LET items == calc.input.items
               ladder == calc.input.freqs
               first == FirstActive(items)
           IN  /\ (first > 0 /\ TicksFrom(items, first) > 0 /\ ladder # <<>>)
                    => calc.result[1]
                          = TickMhz(items, ladder, first, 1) \div TicksFrom(items, first)
               /\ (items = <<<<"IDLE", 100>>, <<"P1", 300>>, <<"P2", 600>>>>
                        /\ ladder = <<1000, 2000>>)
                    => calc.result = <<1666, <<3, -2>>>>

\* ---------------------------------------------------------------------------
\* Properties of the power metrics
\* ---------------------------------------------------------------------------

\* the unit divisors, written as powers of ten
Divisor(unit) ==
    CASE unit = "mJ" -> 10 ^ 3
      [] unit \in {"uJ", UnitMicroBytes} -> 10 ^ 6
      [] unit = "nJ" -> 10 ^ 9

\* energy / seconds / divisor in f32, seconds being ms / 1000
Watts(raw, ms, divisor) ==
    F32Div(F32Div(F32(raw), F32Div(F32(ms), F32(1000))), F32(divisor))

\* the sum, in sample order, of the watts of the first i channels that count
\* for a field; units is the set of labels that are converted
RECURSIVE SumWatts(_, _, _, _, _)
SumWatts(channels, i, field, ms, units) ==
    IF i = 0
    THEN F32(0)
    ELSE LET c == channels[i]
             rest == SumWatts(channels, i - 1, field, ms, units)
         IN  IF c.group = "Energy Model" /\ c.unit \in units /\ Bucket(c.channel) = field
             THEN F32Add(rest, Watts(c.raw, ms, Divisor(c.unit)))
             ELSE rest

\* a power call has sampled and filled its record
Sampled == loop.caller # "none" /\ loop.phase = "sampled"

\* C17: an energy channel's watts are computed over the measured elapsed time
\* between the two snapshots, not over the requested duration:
\* watts = energy / elapsed_seconds / divisor, with divisor 1e3 for mJ, 1e6
\* for uJ and 1e9 for nJ.
C17_WattsOverElapsed ==
    Sampled
        => /\ loop.result.kind = "Ok"
           /\ \A f \in PowerFields :
                loop.result.val[f]
                    = F32Value(SumWatts(loop.channels, Len(loop.channels), f,
                                        loop.elapsed_ms,
                                        {"mJ", "uJ", UnitMicroBytes, "nJ"}))

\* the duration the conversion of the sampled call divides by
DurationUsed ==
    IF loop.caller = "get_power_metrics" THEN 1000 ELSE loop.elapsed_ms

\* the sample holds a channel whose unit label is outside units
HasUnitOutside(units) ==
    \E i \in 1..Len(loop.channels) : loop.channels[i].unit \notin units

\* every bucket of the record holds the watts of the channels whose label is
\* in units, and of no other channel
BucketsCount(units) ==
    /\ loop.result.kind = "Ok"
    /\ \A f \in PowerFields :
            loop.result.val[f]
                = F32Value(SumWatts(loop.channels, Len(loop.channels), f,
                                    DurationUsed, units))

\* C18 as stated: an energy channel whose unit label is not mJ, uJ or nJ is
\* skipped: it adds nothing to any power bucket, every other channel of the
\* sample is still processed, and the call returns successfully.
C18_SkippedUnlessThreeLabels ==
    (Sampled /\ HasUnitOutside({"mJ", "uJ", "nJ"}))
        => BucketsCount({"mJ", "uJ", "nJ"})

\* C18 amended: an energy channel whose unit label is none of mJ, uJ, nJ and
\* the second microjoule label (bytes c3 8e c2 bc 4a) is skipped: it adds
\* nothing to any power bucket, every other channel of the sample is still
\* processed, and the call returns successfully.
C18_SkippedUnlessKnownLabel ==
    (Sampled /\ HasUnitOutside({"mJ", "uJ", UnitMicroBytes, "nJ"}))
        => BucketsCount({"mJ", "uJ", UnitMicroBytes, "nJ"})

\* a sample of a channel in joules and a channel in millijoules has been
\* converted: the record is returned and only the second one is in it
C18_Witness ==
    /\ Sampled
    /\ Len(loop.channels) = 2
    /\ loop.channels[1] = Channel("Energy Model", "DRAM", "J", 7)
    /\ loop.channels[2] = Channel("Energy Model", "CPU Energy", "mJ", 2500)
    /\ loop.result.kind = "Ok"
    /\ loop.result.val.ram_power = F32Value(F32(0))
    /\ loop.result.val.cpu_power # F32Value(F32(0))

\* C19: in the power-metrics variant the report subscription is created once
\* and reused: over any number of sampling cycles of the JSON sampling loop or
\* of the dashboard collector thread, the number of create-subscription calls
\* for the energy group stays at 1 and the number of subscriptions alive at
\* the same time stays at 1.
C19_OneEnergySubscription ==
    loop.caller \in {"dashboard", "json"}
        => /\ loop.created <= 1
           /\ loop.most_alive <= 1

\* ---------------------------------------------------------------------------
\* Properties of the metrics records
\* ---------------------------------------------------------------------------

\* the call is over: it returned or its thread is gone
RecordOver == rec.fn # "none" /\ rec.ret # "none"

\* every field is absent exactly when the read of its source failed
AbsentWithItsSource ==
    \A i \in 1..Len(Sources(rec.fn)) :
        \A f \in FieldsOf(rec.fn, Sources(rec.fn)[i]) :
            rec.fields[f] = "absent" <=> Sources(rec.fn)[i] \in rec.failed

\* C20: each field of the produced record is absent independently of the
\* others: when collecting power or the per-cluster frequency/utilization
\* fails, the record is still returned and only the fields of the failed
\* source are absent; in the controller metrics a failed temperature, power,
\* fan, battery, voltage or current read makes only that field absent or empty
\* while the record is still returned.
C20_FieldsAbsentIndependently ==
    /\ (/\ RecordOver
        /\ rec.fn = "collect_metrics_internal"
        /\ rec.failed \subseteq {"power", "perf"})
          => (rec.ret = "Ok" /\ AbsentWithItsSource)
    /\ (/\ RecordOver
        /\ rec.fn = "get_comprehensive_metrics")
          => (rec.ret = "Ok" /\ AbsentWithItsSource)
    /\ (/\ RecordOver
        /\ rec.fn = "get_temperature_metrics"
        /\ "Smc::new" \notin rec.failed)
          => (rec.ret = "Ok" /\ AbsentWithItsSource)

\* ---------------------------------------------------------------------------
\* Properties of Smc::new, the key cache and the key enumeration
\* ---------------------------------------------------------------------------

\* Smc::new has returned, with the connection or with an error
SmcNewReturned == component = "smc" /\ pc \in {"open", "failed"}

\* C21: on every exit path of Smc::new (connection opened, access denied,
\* other open error, no endpoint with the expected name) each service entry
\* obtained from the iterator has been released exactly once and the iterator
\* itself exactly once; on a failing path no open connection is left behind.
C21_SmcNewReleasesEntries ==
    SmcNewReturned
        => /\ \A i \in 1..Len(services) : services[i] = 1
           /\ "iterator" \notin native.live
           /\ "iterator" \notin native.over
           /\ native.releases["iterator"] = native.allocs["iterator"]
           /\ pc = "failed" => "connection" \notin native.live

\* C22: the key-metadata cache changes only by adding one entry after a
\* successful read_key_info: a failed lookup (key length other than 4,
\* transport error, non-zero controller result) leaves the cache unchanged,
\* and an entry once stored is never modified or removed.
C22_CacheOnlyGrows ==
    [][/\ \A k \in DOMAIN key_cache :
             k \in DOMAIN key_cache' /\ key_cache'[k] = key_cache[k]
       /\ \A k \in DOMAIN key_cache' \ DOMAIN key_cache :
             /\ DOMAIN key_cache' = DOMAIN key_cache \cup {k}
             /\ Len(last'.key) = 4
             /\ k = BigEndian32(last'.key)
             /\ last'.info.kind = "Ok"
             /\ key_cache'[k] = last'.info.val
       /\ last'.info.kind = "Err" => key_cache' = key_cache]_vars

\* with the metadata of "TC0P" cached, a lookup of "F0Ac" was sent and failed:
\* the cache still holds the one entry
C22_Witness ==
    /\ DOMAIN key_cache = {BigEndian32(KeyTC0P)}
    /\ last.op # "none"
    /\ last.key = KeyF0Ac
    /\ last.info.kind = "Err"
    /\ Len(wire) = 1
    /\ wire[1].cmd = SMC_CMD_READ_KEYINFO

\* the step reads "#KEY" / the key at the next index, in read_all_keys
ReadsNumKeys ==
    agg.phase = "run" /\ agg.todo # <<>> /\ Head(agg.todo).how = "num_keys"

ReadsIndex ==
    agg.phase = "run" /\ agg.todo # <<>> /\ Head(agg.todo).how = "index"

\* the index reads made so far and still to make
IndexReads == ReadKeys({"index"}) \o KeysOf(SelectSeq(agg.todo, LAMBDA it : it.how = "index"))

\* 4 characters in lo..126
CharsFrom(key, lo) == Len(key) = 4 /\ \A i \in 1..4 : key[i] >= lo /\ key[i] <= 126

\* read_all_keys with the characters lo..126 kept: "#KEY" = N plans the
\* indices 0..N-1 and a failing "#KEY" ends the enumeration (the caller falls
\* back to its fixed list); every index read sends one read-by-index request
\* for the next index, appends the key when it was read and has 4 kept
\* characters, and goes on whatever the read returned
EnumerationKeeps(lo) ==
    /\ ReadsNumKeys =>
          IF last'.res.kind = "Ok"
          THEN LET N == last'.res.val[1] * 65536 + last'.res.val[2] IN
               /\ agg'.all_keys = <<>>
               /\ N > 0 => /\ agg'.stage = "enumerate"
                           /\ KeysOf(agg'.todo) = [i \in 1..N |-> <<i - 1>>]
                           /\ \A i \in 1..N : agg'.todo[i].how = "index"
          ELSE /\ agg'.all_keys = FallbackKeysRead
               /\ \A i \in 1..Len(agg'.todo) : agg'.todo[i].how # "index"
    /\ ReadsIndex =>
          /\ Head(agg.todo).key = <<Len(ReadKeys({"index"}))>>
          /\ Len(wire') = 1
          /\ wire'[1].cmd = SMC_CMD_READ_INDEX
          /\ wire'[1].data32 = Head(agg.todo).key[1]
          /\ agg'.phase = "run"
          /\ agg'.all_keys = IF last'.res.kind = "Ok" /\ CharsFrom(last'.res.val, lo)
                             THEN Append(agg.all_keys, last'.res.val)
                             ELSE agg.all_keys
          /\ agg'.stage = "enumerate" => Tail(agg.todo) = agg'.todo

\* C23 as stated: key enumeration with #KEY = N issues exactly one
\* read-by-index request for each index 0..N-1, in increasing order; the
\* result is, in index order, exactly the keys that were read successfully and
\* consist of 4 printable ASCII characters (0x20..0x7e); a failed index read
\* is skipped without ending the loop, and the enumeration fails as a whole
\* only when #KEY itself cannot be read.
C23_KeepsPrintableKeys == [][EnumerationKeeps(32)]_vars

\* C23 amended: the same, with the result being exactly the keys that were
\* read successfully and consist of 4 ASCII graphic characters (0x21..0x7e:
\* a key with a space is left out).
C23_KeepsGraphicKeys == [][EnumerationKeeps(33)]_vars

\* index 0 failed in the request and index 1 was still read: its key is the
\* first of the result
C23_Witness ==
    /\ agg.fn \in TemperatureFns
    /\ Len(agg.log) >= 3
    /\ agg.log[2].how = "index" /\ agg.log[2].io
    /\ agg.log[3].how = "index" /\ agg.log[3].ok
    /\ agg.all_keys # <<>>
    /\ agg.all_keys[1] = SensorKey(112, 49)

\* ---------------------------------------------------------------------------
\* Properties of the returned ladders
\* ---------------------------------------------------------------------------

\* a raw ladder (values as halves) is ascending
RawAscending(raw) ==
    \A i \in 1..(Len(raw) - 1) :
        raw[i][1] < raw[i + 1][1] \/ (raw[i][1] = raw[i + 1][1] /\ raw[i][2] < raw[i + 1][2])

\* no entry of the ladder is 0
AllPositive(ladder) ==
    ladder.kind = "Some" => \A i \in 1..Len(ladder.val) : ladder.val[i] > 0

\* the ladder does not step down
InOrder(ladder) ==
    ladder.kind = "Some" =>
        \A i \in 1..(Len(ladder.val) - 1) : ladder.val[i] <= ladder.val[i + 1]

\* the ladder obtained from a raw table
GoodLadder(ladder, raw) ==
    AllPositive(ladder) /\ (RawAscending(raw) => InOrder(ladder))

\* C24: every frequency ladder returned by get_cpu_frequencies,
\* get_gpu_frequencies and get_cpu_metrics contains only positive MHz values
\* after scale normalization (no entry is 0), in ascending order whenever the
\* raw table is ascending.
C24_LaddersPositiveAscending ==
    /\ (calc.op = "get_cpu_frequencies" /\ calc.input.pmgr)
        => /\ GoodLadder(calc.result.ecpu_freqs, RawLadderOf(calc.input.vs1))
           /\ GoodLadder(calc.result.pcpu_freqs, RawLadderOf(calc.input.vs5))
    /\ (calc.op = "get_gpu_frequencies" /\ calc.input.pmgr)
        => GoodLadder(calc.result, RawLadderOf(calc.input.vs9))
    /\ calc.op = "get_cpu_frequencies_from_ioreg"
        => /\ AllPositive(calc.result.ecpu_freqs) /\ InOrder(calc.result.ecpu_freqs)
           /\ AllPositive(calc.result.pcpu_freqs) /\ InOrder(calc.result.pcpu_freqs)

\* ---------------------------------------------------------------------------
\* Properties of calc_freq: idle channels, bounds
\* ---------------------------------------------------------------------------

\* the active tick sum: the ticks from the first state not named IDLE, DOWN
\* or OFF onward, nothing when there is no such state
ActiveTicks(items) ==
    IF FirstActive(items) = 0 THEN 0 ELSE TicksFrom(items, FirstActive(items))

\* (0 MHz, 0.0)
ZeroResult == <<0, <<0, 0>>>>

\* C25: calc_freq reports (0 MHz, 0.0) whenever the active tick sum is zero
\* or the ladder is empty, for every state list, and in that case performs no
\* division.
C25_ZeroWithoutActiveTicksOrLadder ==
    (calc.op = "calc_freq"
        /\ (ActiveTicks(calc.input.items) = 0 \/ calc.input.freqs = <<>>))
        => /\ calc.result = ZeroResult
           /\ calc_freq_divisions(calc.input.items, calc.input.freqs) = 0

\* C26: the active tick sum never includes the ticks of the IDLE/DOWN/OFF
\* states that precede the first active state; in particular a channel whose
\* states are all named IDLE, DOWN or OFF, with positive ticks, is reported as
\* (0 MHz, 0.0).
C26_IdleTicksNotActive ==
    calc.op = "calc_freq"
        => LET items == calc.input.items IN
           /\ SumTicks(items, Offset(items) + 1) = ActiveTicks(items)
           /\ (/\ \A i \in 1..Len(items) : items[i][1] \in {"IDLE", "DOWN", "OFF"}
               /\ \A i \in 1..Len(items) : items[i][2] > 0)
                 => calc.result = ZeroResult

\* m * 2^e, with m odd or zero, lies in [0, 1]
InUnitInterval(v) ==
    /\ v[1] >= 0
    /\ v[1] = 0 \/ (v[2] <= 0 /\ (v[2] < -30 \/ v[1] <= 2 ^ (0 - v[2])))

\* C27: for every state list with non-negative ticks and every non-empty
\* ascending ladder of positive values, the utilization returned by calc_freq
\* lies in [0, 1] and the returned frequency is at most the largest ladder
\* entry, also when the channel has more active states than the ladder has
\* entries.
C27_UtilizationAndFrequencyBounded ==
    (calc.op = "calc_freq" /\ calc.input.freqs # <<>>)
        => /\ InUnitInterval(calc.result[2])
           /\ calc.result[1] >= 0
           /\ calc.result[1] <= calc.input.freqs[Len(calc.input.freqs)]

\* a channel with three active states, all with ticks, against a ladder of
\* two entries: the result is positive and within the bounds
C27_Witness ==
    /\ calc.op = "calc_freq"
    /\ Len(calc.input.freqs) = 2
    /\ Len(calc.input.items) = 4
    /\ FirstActive(calc.input.items) = 2
    /\ \A i \in 2..4 : calc.input.items[i][2] > 0
    /\ calc.result[1] > 0
    /\ calc.result[2][1] > 0
    /\ InUnitInterval(calc.result[2])

\* ---------------------------------------------------------------------------
\* Properties of parse_sample: the clusters and the GPU
\* ---------------------------------------------------------------------------

\* the channel array of the parsed data
SampleChannels ==
    IF calc.input.data = None THEN <<>> ELSE calc.input.data.val

InCoreStates(ch) ==
    ch.group = "CPU Stats" /\ ch.subgroup = "CPU Core Performance States"

EfficiencyChannels ==
    { i \in DOMAIN SampleChannels :
        InCoreStates(SampleChannels[i]) /\ Contains(SampleChannels[i].name, ECPU) }

PerformanceChannels ==
    { i \in DOMAIN SampleChannels :
        /\ InCoreStates(SampleChannels[i])
        /\ Contains(SampleChannels[i].name, PCPU)
        /\ ~Contains(SampleChannels[i].name, ECPU) }

\* calc_freq of the channels at the given indices, in their order
RECURSIVE UsagesOver(_, _)
UsagesOver(idx, freqs) ==
    IF idx = {}
    THEN <<>>
    ELSE LET top == CHOOSE i \in idx : \A j \in idx : j <= i IN
         Append(UsagesOver(idx \ {top}, freqs),
                calc_freq(SampleChannels[top].items, freqs))

RECURSIVE FreqTotal(_, _)
FreqTotal(usages, n) ==
    IF n = 0 THEN 0 ELSE usages[n][1] + FreqTotal(usages, n - 1)

\* the mean of the frequencies, truncated, and the mean of the utilizations
MeanOf(usages) ==
    IF usages = <<>>
    THEN ZeroResult
    ELSE <<FreqTotal(usages, Len(usages)) \div Len(usages),
           F32Value(F32Div(SumUtilF32(usages, Len(usages)), F32(Len(usages))))>>

\* C28: the efficiency-cluster result is the mean (frequency truncated) of
\* calc_freq over exactly the channels of group "CPU Stats", subgroup "CPU
\* Core Performance States" whose name contains "ECPU", the performance-cluster
\* result likewise for names containing "PCPU" and not "ECPU"; each channel
\* counts in at most one cluster, channels of other groups in none, and a
\* cluster with no channel reports (0, 0.0).
C28_ClusterMeans ==
    calc.op = "parse_sample"
        => /\ calc.result.ecpu_usages
                = UsagesOver(EfficiencyChannels, calc.input.ecpu_freqs)
           /\ calc.result.pcpu_usages
                = UsagesOver(PerformanceChannels, calc.input.pcpu_freqs)
           /\ calc.result.ecpu_usage = MeanOf(calc.result.ecpu_usages)
           /\ calc.result.pcpu_usage = MeanOf(calc.result.pcpu_usages)
           /\ Len(calc.result.ecpu_usages) + Len(calc.result.pcpu_usages)
                <= Cardinality({ i \in DOMAIN SampleChannels :
                                    InCoreStates(SampleChannels[i]) })
           /\ EfficiencyChannels = {} => calc.result.ecpu_usage = ZeroResult
           /\ PerformanceChannels = {} => calc.result.pcpu_usage = ZeroResult

\* a channel named with both "PCPU" and "ECPU" beside a performance channel:
\* each cluster averages one channel
C28_Witness ==
    /\ calc.op = "parse_sample"
    /\ Len(SampleChannels) = 2
    /\ \E i \in EfficiencyChannels : Contains(SampleChannels[i].name, PCPU)
    /\ Cardinality(PerformanceChannels) = 1
    /\ calc.result.ecpu_usage[1] > 0
    /\ calc.result.pcpu_usage[1] > 0

\* two performance channels whose frequencies have an odd sum: the mean is
\* truncated
TruncatedMean ==
    /\ calc.op = "parse_sample"
    /\ Cardinality(PerformanceChannels) = 2
    /\ FreqTotal(calc.result.pcpu_usages, 2) % 2 = 1
    /\ 2 * calc.result.pcpu_usage[1] + 1 = FreqTotal(calc.result.pcpu_usages, 2)

GpuChannels ==
    { i \in DOMAIN SampleChannels :
        /\ SampleChannels[i].group = "GPU Stats"
        /\ SampleChannels[i].subgroup = "GPU Performance States"
        /\ SampleChannels[i].name = GPUPH }

\* the GPUPH channel of the data, the last one when there are several
GpuChannel ==
    SampleChannels[CHOOSE i \in GpuChannels : \A j \in GpuChannels : j <= i]

\* C29: the GPU result is calc_freq of the channel named "GPUPH" of group
\* "GPU Stats", subgroup "GPU Performance States" against the GPU ladder
\* without its first entry; with an empty or single-entry GPU ladder the GPU
\* result is (0, 0.0) and the sample is still produced.
C29_GpuAgainstLadderTail ==
    calc.op = "parse_sample"
        => /\ (GpuChannels # {} /\ calc.input.gpu_freqs # <<>>)
                => calc.result.gpu_usage
                     = calc_freq(GpuChannel.items, Tail(calc.input.gpu_freqs))
           /\ Len(calc.input.gpu_freqs) <= 1
                => /\ calc.result.gpu_usage = ZeroResult
                   /\ DOMAIN calc.result
                        = {"ecpu_usage", "pcpu_usage", "gpu_usage",
                           "ecpu_usages", "pcpu_usages"}

\* a GPUPH channel with active ticks against a ladder of three entries: the
\* result lies between the second and the third entry
C29_Witness ==
    /\ calc.op = "parse_sample"
    /\ Cardinality(GpuChannels) = 1
    /\ Len(calc.input.gpu_freqs) = 3
    /\ ActiveTicks(GpuChannel.items) > 0
    /\ calc.result.gpu_usage[1] >= calc.input.gpu_freqs[2]
    /\ calc.result.gpu_usage[1] <= calc.input.gpu_freqs[3]

\* a GPUPH channel with active ticks against a ladder of one entry
SingleEntryGpuLadder ==
    /\ calc.op = "parse_sample"
    /\ GpuChannels # {}
    /\ Len(calc.input.gpu_freqs) = 1
    /\ ActiveTicks(GpuChannel.items) > 0
    /\ calc.result.gpu_usage = ZeroResult

\* ---------------------------------------------------------------------------
\* Properties of the dashboard histories
\* ---------------------------------------------------------------------------

\* every history holds at most MAX_HISTORY entries and the histories of a
\* group have one length
HistoriesBounded ==
    /\ \A h \in Histories : Len(dash.state[h]) <= MAX_HISTORY
    /\ \A h \in PowerHistories :
          Len(dash.state[h]) = Len(dash.state.cpu_power_history)
    /\ \A h \in PerformanceHistories :
          Len(dash.state[h]) = Len(dash.state.ecpu_freq_history)

\* the entries the last update brought are at the front
NewestAtFront ==
    dash.updates > 0
        => /\ Head(dash.state.memory_history) = dash.state.current_memory.val.ram_usage
           /\ dash.state.current_power # None
                => \A h \in PowerHistories :
                      Head(dash.state[h]) = PowerValues(dash.state.current_power.val)[h]
           /\ dash.state.current_performance # None
                => \A h \in PerformanceHistories :
                      Head(dash.state[h])
                        = PerformanceValues(dash.state.current_performance.val)[h]

\* an update pushes its entries before the entries that were there and keeps
\* the histories of a group it has no data for
OlderBehind ==
    dash' # dash
        => /\ \A i \in 2..Len(dash'.state.memory_history) :
                  dash'.state.memory_history[i] = dash.state.memory_history[i - 1]
           /\ dash'.state.current_power = None
                => \A h \in PowerHistories : dash'.state[h] = dash.state[h]
           /\ dash'.state.current_performance = None
                => \A h \in PerformanceHistories : dash'.state[h] = dash.state[h]

\* C30: after any sequence of updates every history holds at most MAX_HISTORY
\* entries with the newest at the front, the four power histories have equal
\* length, the seven performance histories have equal length, and an update
\* without power (performance) data leaves the power (performance) histories
\* unchanged.
C30_HistoriesBoundedNewestFirst ==
    /\ [](HistoriesBounded /\ NewestAtFront)
    /\ [][OlderBehind]_vars

\* a full memory history has taken one more entry and lost its oldest, with
\* the power histories left one short by an update without power data
C30_Witness ==
    /\ dash.updates = 2
    /\ Len(dash.state.memory_history) = MAX_HISTORY
    /\ dash.state.memory_history[1] # dash.state.memory_history[2]
    /\ dash.state.memory_history[3] = 0
    /\ dash.state.current_power = None
    /\ Len(dash.state.cpu_power_history) = MAX_HISTORY - 1
    /\ Len(dash.state.ecpu_freq_history) = MAX_HISTORY
    /\ dash.state.cpu_usage_history[1] > 0

====
